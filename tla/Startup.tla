------------------------------ MODULE Startup ------------------------------
(***************************************************************************)
(* main() of src/src/main.cpp: the command line and the initialization file *)
(* (programOptions.hpp, otelOptions.hpp), the exporters of logs and metrics *)
(* (logger.hpp, metrics.hpp), and what is cleaned up when a phase fails.    *)
(* The files it looks at may come and go meanwhile.  main() does not make   *)
(* its Process yet, that statement is commented out, and so neither does    *)
(* the model: after the exporters there is nothing that could fail.         *)
(*                                                                         *)
(* An initialization file is what its sections make the parser do.  Left    *)
(* out: values that only pass through (addresses, intervals that are valid, *)
(* verbosity, sizes) and the console.                                       *)
(***************************************************************************)
EXTENDS Integers

CONSTANTS
    Inis,     \* initialization files, a set of Ini
    Builds    \* with and without WITH_OTLP_GRPC, a set of Booleans

\* "wrong": a buffer size or a number of tables below one.
\* "hostless": no host, so the intervals are not looked at; "wrong": one is not
\* positive.  "secured": names a certificate.
Ini == [readable    : BOOLEAN,
        rocksDB     : {"absent", "wrong", "right"},
        httpLog     : {"absent", "plain"},
        grpcLog     : {"absent", "plain", "secured"},
        httpMetrics : {"absent", "hostless", "wrong", "plain"},
        grpcMetrics : {"absent", "wrong", "plain", "secured"}]

ASSUME StartupAssumption == Inis \subseteq Ini /\ Builds \subseteq BOOLEAN

VARIABLES
    main,                \* the phase main() is in
    exitCode,
    ini, withGRPC,       \* never change
    iniExists, certificateExists,
    options,             \* programOptions
    serviceName,         \* OTEL_SERVICE_NAME: "unset", "user" or "application"
    loggerProvider,      \* the registered exporter of logs
    meterProvider,       \* and of metrics
    metricsInitialized,
    logger,              \* "none", "console", or "otel" if it feeds the exporter too
    \* Observers, read by no action:
    iniGone, certificateGone    \* the file has been missing at some time

files     == <<iniExists, certificateExists, iniGone, certificateGone>>
fixed     == <<ini, withGRPC>>
providers == <<loggerProvider, meterProvider, metricsInitialized>>
vars == <<main, exitCode, fixed, files, options, serviceName, providers, logger>>

----------------------------------------------------------------------------
Transport == {"off", "http", "grpc"}
Exporter  == {"none", "http", "grpc", "tls"}
Options   == [store : BOOLEAN, logs : Transport, metrics : Transport,
              logsCertificate : BOOLEAN, metricsCertificate : BOOLEAN]

\* ProgramOptions as constructed.
DefaultOptions == [store |-> FALSE, logs |-> "off", metrics |-> "off",
                   logsCertificate |-> FALSE, metricsCertificate |-> FALSE]

\* Of two sections that both ask for an export the HTTP one counts.
Choice(http, grpc) ==
    IF http # "absent" THEN "http" ELSE IF grpc # "absent" THEN "grpc" ELSE "off"

\* The gRPC sections are asked for only without an HTTP one; then a build without
\* gRPC throws, whether or not the section is there.
LogsThrow == ini.httpLog = "absent" /\ ~withGRPC

MetricsThrow ==
    IF ini.httpMetrics = "absent"
    THEN ~withGRPC \/ ini.grpcMetrics = "wrong"
    ELSE ini.httpMetrics = "wrong"

\* Only the sections that count are read.  A certificate that is not there is
\* ignored.
Parsed ==
    [store              |-> TRUE,
     logs               |-> Choice(ini.httpLog, ini.grpcLog),
     metrics            |-> Choice(ini.httpMetrics, ini.grpcMetrics),
     logsCertificate    |-> /\ ini.httpLog = "absent" /\ ini.grpcLog = "secured"
                            /\ certificateExists,
     metricsCertificate |-> /\ ini.httpMetrics = "absent" /\ ini.grpcMetrics = "secured"
                            /\ certificateExists]

Init ==
    /\ main = "start" /\ exitCode = "none"
    /\ ini \in Inis /\ withGRPC \in Builds
    /\ iniExists \in BOOLEAN /\ certificateExists \in BOOLEAN
    /\ iniGone = ~iniExists /\ certificateGone = ~certificateExists
    /\ options = DefaultOptions
    /\ serviceName \in {"unset", "user"}
    /\ loggerProvider = "none" /\ meterProvider = "none" /\ metricsInitialized = FALSE
    /\ logger = "none"

Exit(code) == main' = "exit" /\ exitCode' = code
Go(phase)  == main' = phase /\ UNCHANGED exitCode

(***************************************************************************)
(* The command line and the initialization file.                           *)
(***************************************************************************)
Arguments == {"help", "ini", "none", "unknown"}

ParseCommandLine(arguments) ==
    /\ main = "start"
    /\ \/ arguments = "help" /\ Exit("success")
       \/ arguments \in {"none", "unknown"} /\ Exit("failure")
       \/ arguments = "ini" /\ IF iniExists THEN Go("test") ELSE Exit("failure")
    /\ UNCHANGED <<fixed, files, options, serviceName, providers, logger>>

\* parseIniFile() looks again.  A file that has gone since leaves the defaults.
TestIniFile ==
    /\ main = "test"
    /\ Go(IF iniExists THEN "read" ELSE "name")
    /\ UNCHANGED <<fixed, files, options, serviceName, providers, logger>>

\* Faulty variant: no RocksDB section is no error.
ReadIniFileNoStore(directoryMade) ==
    /\ main = "read"
    /\ IF \/ ~iniExists \/ ~ini.readable
          \/ ini.rocksDB = "wrong" \/ ~directoryMade
          \/ LogsThrow \/ MetricsThrow
       THEN Exit("failure") /\ UNCHANGED options
       ELSE Go("name") /\ options' = Parsed
    /\ UNCHANGED <<fixed, files, serviceName, providers, logger>>

\* The directory of the database is made while its section is read.
ReadIniFile(directoryMade) ==
    /\ main = "read"
    /\ IF \/ ~iniExists \/ ~ini.readable
          \/ ini.rocksDB # "right" \/ ~directoryMade
          \/ LogsThrow \/ MetricsThrow
       THEN Exit("failure") /\ UNCHANGED options
       ELSE Go("name") /\ options' = Parsed
    /\ UNCHANGED <<fixed, files, serviceName, providers, logger>>

\* Faulty variant: leaves the variable alone.
SetServiceNameNot ==
    /\ main = "name"
    /\ Go("logger")
    /\ UNCHANGED <<fixed, files, options, serviceName, providers, logger>>

SetServiceName ==
    /\ main = "name"
    /\ serviceName' = IF serviceName = "unset" THEN "application" ELSE serviceName
    /\ Go("logger")
    /\ UNCHANGED <<fixed, files, options, providers, logger>>

(***************************************************************************)
(* The exporters.                                                          *)
(***************************************************************************)
\* Faulty variant: registers an exporter also when there is none to make.
ExporterOfOff(transport, secured) == transport

\* The exporter a transport needs.
ExporterOf(transport, secured) ==
    CASE transport = "off"  -> "none"
      [] transport = "http" -> "http"
      [] transport = "grpc" -> IF secured THEN "tls" ELSE "grpc"

\* Faulty variant: the cleanup forgets the registered provider.
CleanUpLoggerHalf == UNCHANGED loggerProvider

CleanUpLogger == loggerProvider' = "none"

\* initializeGRPC() of logger.hpp looks at the certificate once more.
RegisterLogs ==
    loggerProvider' = ExporterOf(options.logs, options.logsCertificate /\ certificateExists)

\* Making the sinks, the exporter and the logger may fail, before the exporter is
\* registered and after.  main() then leaves without a cleanup.
InitializeLogger(failure) ==
    /\ main = "logger"
    /\ \/ /\ failure = "early" \/ (options.logs = "grpc" /\ ~withGRPC)
          /\ Exit("failure")
          /\ UNCHANGED <<loggerProvider, logger>>
       \/ /\ failure = "late" /\ options.logs # "off"
          /\ options.logs = "grpc" => withGRPC
          /\ RegisterLogs
          /\ Exit("failure")
          /\ UNCHANGED logger
       \/ /\ failure = "none"
          /\ options.logs = "grpc" => withGRPC
          /\ RegisterLogs
          /\ logger' = IF options.logs = "off" THEN "console" ELSE "otel"
          /\ Go("metrics")
    /\ UNCHANGED <<fixed, files, options, serviceName, meterProvider, metricsInitialized>>

\* Faulty variant: cleans up before the failure is reported.
InitializeMetricsCleansUp(fails) ==
    /\ main = "metrics"
    /\ fails => options.metrics # "off"
    /\ IF fails \/ (options.metrics = "grpc" /\ ~withGRPC)
       THEN /\ Go("report")
            /\ CleanUpLogger
            /\ UNCHANGED <<meterProvider, metricsInitialized>>
       ELSE /\ Go("run")
            /\ meterProvider' = ExporterOf(options.metrics, options.metricsCertificate)
            /\ metricsInitialized' = (options.metrics # "off")
            /\ UNCHANGED loggerProvider
    /\ UNCHANGED <<fixed, files, options, serviceName, logger>>

\* Nothing can fail once the exporter is registered.  initializeGRPC() of
\* metrics.hpp does not look at the certificate.
InitializeMetrics(fails) ==
    /\ main = "metrics"
    /\ fails => options.metrics # "off"
    /\ IF fails \/ (options.metrics = "grpc" /\ ~withGRPC)
       THEN /\ Go("report")
            /\ UNCHANGED <<meterProvider, metricsInitialized>>
       ELSE /\ Go("run")
            /\ meterProvider' = ExporterOf(options.metrics, options.metricsCertificate)
            /\ metricsInitialized' = (options.metrics # "off")
    /\ UNCHANGED <<fixed, files, options, serviceName, loggerProvider, logger>>

\* The failure is reported through the new logger.
ReportFailure ==
    /\ main = "report"
    /\ Go("cleanup")
    /\ UNCHANGED <<fixed, files, options, serviceName, providers, logger>>

CleanUp ==
    /\ main = "cleanup"
    /\ CleanUpLogger
    /\ Exit("failure")
    /\ UNCHANGED <<fixed, files, options, serviceName, meterProvider, metricsInitialized,
                   logger>>

\* The blocks that would make and run the Process are empty, and main() leaves
\* without a cleanup.
Run ==
    /\ main = "run"
    /\ Exit("success")
    /\ UNCHANGED <<fixed, files, options, serviceName, providers, logger>>

\* Somebody moves, restores or replaces a file.
TouchFiles ==
    /\ main # "exit"
    /\ \/ iniExists' = ~iniExists /\ UNCHANGED certificateExists
       \/ certificateExists' = ~certificateExists /\ UNCHANGED iniExists
    /\ iniGone' = (iniGone \/ ~iniExists')
    /\ certificateGone' = (certificateGone \/ ~certificateExists')
    /\ UNCHANGED <<main, exitCode, fixed, options, serviceName, providers, logger>>

----------------------------------------------------------------------------
Failures == {"none", "early", "late"}

Main ==
    \/ \E arguments \in Arguments : ParseCommandLine(arguments)
    \/ TestIniFile
    \/ \E directoryMade \in BOOLEAN : ReadIniFile(directoryMade)
    \/ SetServiceName
    \/ \E failure \in Failures : InitializeLogger(failure)
    \/ \E fails \in BOOLEAN : InitializeMetrics(fails)
    \/ ReportFailure
    \/ CleanUp
    \/ Run

Next == Main \/ TouchFiles

Spec == Init /\ [][Next]_vars

----------------------------------------------------------------------------
\* Types.
TypeOK ==
    /\ main \in {"start", "test", "read", "name", "logger", "metrics", "report", "cleanup",
                 "run", "exit"}
    /\ exitCode \in {"none", "success", "failure"}
    /\ ini \in Ini /\ withGRPC \in BOOLEAN
    /\ iniExists \in BOOLEAN /\ certificateExists \in BOOLEAN
    /\ iniGone \in BOOLEAN /\ certificateGone \in BOOLEAN
    /\ options \in Options
    /\ serviceName \in {"unset", "user", "application"}
    /\ loggerProvider \in Exporter /\ meterProvider \in Exporter
    /\ metricsInitialized \in BOOLEAN
    /\ logger \in {"none", "console", "otel"}

\* A failure after the logger was made leaves no exporter registered.  (One while
\* it is being made may leave the exporter of logs.)  The flag that decides what
\* Metrics::cleanup() would do agrees with the provider throughout.
FailureLeavesNothing ==
    /\ exitCode = "failure" /\ logger # "none" =>
           loggerProvider = "none" /\ meterProvider = "none"
    /\ metricsInitialized = (meterProvider # "none")

\* The exporters that two sections of the file may lead to.  A secured one is
\* secured unless its certificate has been missing.
Asked(http, grpc) ==
    CASE http # "absent"                      -> {"http"}
      [] http = "absent" /\ grpc = "secured"  ->
             IF certificateGone THEN {"grpc", "tls"} ELSE {"tls"}
      [] http = "absent" /\ grpc = "plain"    -> {"grpc"}
      [] http = "absent" /\ grpc \in {"absent", "wrong"} -> {"none"}

\* main() that comes past its phases has the exporters that the initialization
\* file asks for, of a file that names a store; or, if the file vanished between
\* the two looks at it, none of them, and never something in between.  A
\* connection is secured if the certificate was there all the time.
RunsAsConfigured ==
    main = "run" =>
        \/ /\ ini.readable /\ ini.rocksDB = "right"
           /\ loggerProvider \in Asked(ini.httpLog, ini.grpcLog)
           /\ meterProvider \in Asked(ini.httpMetrics, ini.grpcMetrics)
        \/ iniGone /\ loggerProvider = "none" /\ meterProvider = "none"

\* Exporters read OTEL_SERVICE_NAME when they are made: by then it is set, in
\* every order of phases and failures.
NamedBeforeExport ==
    loggerProvider # "none" \/ meterProvider # "none" => serviceName # "unset"

\* main() reports through a logger that feeds an exporter only while the exporter
\* is registered: the sink calls the registered provider without looking whether
\* there is one, and Logger::cleanup() leaves none.
ReportsThroughProvider ==
    main = "report" /\ logger = "otel" => loggerProvider # "none"

============================================================================
