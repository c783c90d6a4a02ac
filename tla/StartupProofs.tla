--------------------------- MODULE StartupProofs ---------------------------
(***************************************************************************)
(* Proofs about Startup, for every set of initialization files and builds.  *)
(***************************************************************************)
EXTENDS Startup, TLAPS

\* What the phases establish: exporters appear in their phase, and the service
\* has a name before.
PhasesInv ==
    /\ main \in {"start", "test", "read", "name", "logger"} =>
           loggerProvider = "none" /\ logger = "none"
    /\ main \notin {"run", "exit"} => meterProvider = "none"
    /\ main \notin {"start", "test", "read", "name", "exit"} => serviceName # "unset"
    /\ main \in {"metrics", "report"} /\ logger = "otel" => loggerProvider # "none"
    /\ main # "exit" => exitCode = "none"
    /\ exitCode = "failure" => meterProvider = "none"

\* Options that have a store come from the file; the others are the defaults, and
\* after the file was looked at they mean that it was missing.
OptionsInv ==
    /\ options.store =>
        /\ ini.readable /\ ini.rocksDB = "right"
        /\ options.logs = Choice(ini.httpLog, ini.grpcLog)
        /\ options.metrics = Choice(ini.httpMetrics, ini.grpcMetrics)
        /\ options.logsCertificate => ini.httpLog = "absent" /\ ini.grpcLog = "secured"
        /\ options.metricsCertificate =>
               ini.httpMetrics = "absent" /\ ini.grpcMetrics = "secured"
        /\ ini.httpMetrics = "absent" => ini.grpcMetrics # "wrong"
        /\ ini.httpLog = "absent" /\ ini.grpcLog = "secured" =>
               options.logsCertificate \/ certificateGone
        /\ ini.httpMetrics = "absent" /\ ini.grpcMetrics = "secured" =>
               options.metricsCertificate \/ certificateGone
    /\ ~options.store =>
        /\ options = DefaultOptions
        /\ main \notin {"start", "test", "read", "exit"} => iniGone

\* The observers know at least what is the case now.
GoneInv == (iniGone \/ iniExists) /\ (certificateGone \/ certificateExists)

\* The exporters, once made, are those the file asks for, or none by default.
ExportersInv ==
    /\ main \in {"metrics", "run"} =>
           IF options.store THEN loggerProvider \in Asked(ini.httpLog, ini.grpcLog)
                            ELSE loggerProvider = "none"
    /\ main = "run" =>
           IF options.store THEN meterProvider \in Asked(ini.httpMetrics, ini.grpcMetrics)
                            ELSE meterProvider = "none"

IInv ==
    /\ TypeOK /\ PhasesInv /\ OptionsInv /\ GoneInv /\ ExportersInv
    /\ FailureLeavesNothing /\ NamedBeforeExport

\* The exporter made for the log sections of a file is one that they ask for.
LEMMA LogsExporter ==
    ASSUME NEW i \in Ini, NEW secured \in BOOLEAN,
           secured => i.httpLog = "absent" /\ i.grpcLog = "secured",
           i.httpLog = "absent" /\ i.grpcLog = "secured" => secured \/ certificateGone
    PROVE  ExporterOf(Choice(i.httpLog, i.grpcLog), secured) \in Asked(i.httpLog, i.grpcLog)
<1>1. i.httpLog \in {"absent", "plain"} /\ i.grpcLog \in {"absent", "plain", "secured"}
  BY DEF Ini
<1> QED BY <1>1 DEF ExporterOf, Choice, Asked

\* So is the one made for the metrics sections, unless their intervals are wrong.
LEMMA MetricsExporter ==
    ASSUME NEW i \in Ini, NEW secured \in BOOLEAN,
           secured => i.httpMetrics = "absent" /\ i.grpcMetrics = "secured",
           i.httpMetrics = "absent" /\ i.grpcMetrics = "secured" =>
               secured \/ certificateGone,
           i.httpMetrics = "absent" => i.grpcMetrics # "wrong"
    PROVE  ExporterOf(Choice(i.httpMetrics, i.grpcMetrics), secured)
               \in Asked(i.httpMetrics, i.grpcMetrics)
<1>1. /\ i.httpMetrics \in {"absent", "hostless", "wrong", "plain"}
      /\ i.grpcMetrics \in {"absent", "wrong", "plain", "secured"}
  BY DEF Ini
<1> QED BY <1>1 DEF ExporterOf, Choice, Asked

\* Exporters and transports have their types.
LEMMA ExporterTypes ==
    /\ \A t \in Transport, s \in BOOLEAN : /\ ExporterOf(t, s) \in Exporter
                                           /\ ExporterOf(t, s) = "none" <=> t = "off"
    /\ TypeOK => Parsed \in Options
<1>1. ASSUME NEW t \in Transport, NEW s \in BOOLEAN
      PROVE  ExporterOf(t, s) \in Exporter /\ (ExporterOf(t, s) = "none" <=> t = "off")
  BY DEF ExporterOf, Transport, Exporter
<1>2. TypeOK => Parsed \in Options
  BY DEF TypeOK, Parsed, Options, Choice, Transport
<1> QED BY <1>1, <1>2

\* At the start of main() nothing is set up.
LEMMA StartupInit == Init => IInv
<1> SUFFICES ASSUME Init PROVE IInv
  OBVIOUS
<1>1. TypeOK
  BY StartupAssumption DEF Init, TypeOK, DefaultOptions, Options, Transport, Exporter
<1>2. PhasesInv /\ OptionsInv /\ GoneInv /\ ExportersInv /\ FailureLeavesNothing
      /\ NamedBeforeExport
  BY DEF Init, PhasesInv, OptionsInv, GoneInv, ExportersInv, FailureLeavesNothing,
         NamedBeforeExport, DefaultOptions
<1> QED BY <1>1, <1>2 DEF IInv

\* Every phase of main() keeps the invariant, and so does who touches the files.
LEMMA StartupNext == IInv /\ [Next]_vars => IInv'
<1> SUFFICES ASSUME IInv, [Next]_vars PROVE IInv'
  OBVIOUS
<1> USE DEF IInv
<1>1. CASE UNCHANGED vars
  <2>1. OptionsInv' /\ ExportersInv'
    BY <1>1 DEF vars, fixed, files, providers, OptionsInv, ExportersInv, Asked
  <2>2. TypeOK' /\ PhasesInv' /\ GoneInv' /\ FailureLeavesNothing' /\ NamedBeforeExport'
    BY <1>1 DEF vars, fixed, files, providers, TypeOK, PhasesInv, GoneInv,
                FailureLeavesNothing, NamedBeforeExport
  <2> QED BY <2>1, <2>2
<1>2. ASSUME NEW a \in Arguments, ParseCommandLine(a) PROVE IInv'
  BY <1>2 DEF ParseCommandLine, Exit, Go, fixed, files, providers, TypeOK, PhasesInv,
              OptionsInv, GoneInv, ExportersInv, FailureLeavesNothing, NamedBeforeExport
<1>3. CASE TestIniFile
  BY <1>3 DEF TestIniFile, Go, fixed, files, providers, TypeOK, PhasesInv, OptionsInv,
              GoneInv, ExportersInv, FailureLeavesNothing, NamedBeforeExport
<1>4. ASSUME NEW d \in BOOLEAN, ReadIniFile(d) PROVE IInv'
  <2>1. CASE main' = "exit"
    BY <1>4, <2>1 DEF ReadIniFile, Exit, Go, fixed, files, providers, TypeOK, PhasesInv,
                OptionsInv, GoneInv, ExportersInv, FailureLeavesNothing, NamedBeforeExport
  <2>2. CASE main' # "exit"
    <3>1. /\ main = "read" /\ main' = "name" /\ exitCode' = exitCode /\ options' = Parsed
          /\ ini.readable /\ ini.rocksDB = "right" /\ ~MetricsThrow
          /\ UNCHANGED <<fixed, files, serviceName, providers, logger>>
      BY <1>4, <2>2 DEF ReadIniFile, Exit, Go
    <3>2. TypeOK'
      BY <3>1, ExporterTypes DEF TypeOK, fixed, files, providers
    <3>3. OptionsInv' /\ GoneInv'
      BY <3>1 DEF OptionsInv, GoneInv, Parsed, MetricsThrow, Choice, fixed, files
    <3>4. PhasesInv' /\ ExportersInv' /\ FailureLeavesNothing' /\ NamedBeforeExport'
      BY <3>1 DEF PhasesInv, ExportersInv, FailureLeavesNothing, NamedBeforeExport, fixed,
                  files, providers, TypeOK
    <3> QED BY <3>2, <3>3, <3>4
  <2> QED BY <2>1, <2>2
<1>5. CASE SetServiceName
  BY <1>5 DEF SetServiceName, Go, fixed, files, providers, TypeOK, PhasesInv, OptionsInv,
              GoneInv, ExportersInv, FailureLeavesNothing, NamedBeforeExport
<1>6. ASSUME NEW f \in Failures, InitializeLogger(f) PROVE IInv'
  <2> DEFINE secured == options.logsCertificate /\ certificateExists
  <2>0. /\ options.logs \in Transport /\ secured \in BOOLEAN /\ ini \in Ini
        /\ main = "logger" /\ loggerProvider = "none" /\ meterProvider = "none"
        /\ serviceName # "unset" /\ ~metricsInitialized /\ exitCode = "none"
        /\ UNCHANGED <<fixed, files, options, serviceName, meterProvider,
                       metricsInitialized>>
    BY <1>6 DEF InitializeLogger, TypeOK, Options, PhasesInv, FailureLeavesNothing
  <2>1. OptionsInv' /\ GoneInv'
    BY <2>0, <1>6 DEF InitializeLogger, Exit, Go, OptionsInv, GoneInv, fixed, files
  <2>2. CASE main' = "exit"
    <3>1. /\ exitCode' = "failure" /\ logger' = logger /\ logger = "none"
          /\ loggerProvider' = loggerProvider
             \/ loggerProvider' = ExporterOf(options.logs, secured)
      BY <1>6, <2>2 DEF InitializeLogger, RegisterLogs, Exit, Go, PhasesInv
    <3>2. TypeOK'
      BY <2>0, <2>2, <3>1, ExporterTypes DEF TypeOK, fixed, files
    <3>3. PhasesInv' /\ ExportersInv' /\ FailureLeavesNothing' /\ NamedBeforeExport'
      BY <2>0, <2>2, <3>1 DEF PhasesInv, ExportersInv, FailureLeavesNothing,
                  NamedBeforeExport
    <3> QED BY <2>1, <3>2, <3>3
  <2>3. CASE main' # "exit"
    <3>1. /\ main' = "metrics" /\ exitCode' = exitCode
          /\ loggerProvider' = ExporterOf(options.logs, secured)
          /\ logger' = IF options.logs = "off" THEN "console" ELSE "otel"
      BY <1>6, <2>3 DEF InitializeLogger, RegisterLogs, Exit, Go
    <3>2. TypeOK'
      BY <2>0, <3>1, ExporterTypes DEF TypeOK, fixed, files
    <3>3. ExportersInv'
      <4>0. UNCHANGED <<options, ini, certificateGone>>
        BY <2>0 DEF fixed, files
      <4>1. ASSUME options.store PROVE loggerProvider' \in Asked(ini.httpLog, ini.grpcLog)
        <5>1. /\ secured => ini.httpLog = "absent" /\ ini.grpcLog = "secured"
              /\ ini.httpLog = "absent" /\ ini.grpcLog = "secured" =>
                     secured \/ certificateGone
          BY <4>1 DEF OptionsInv, GoneInv
        <5>2. options.logs = Choice(ini.httpLog, ini.grpcLog)
          BY <4>1 DEF OptionsInv
        <5> HIDE DEF secured
        <5> QED BY <2>0, <3>1, <5>1, <5>2, LogsExporter
      <4>2. ASSUME ~options.store PROVE loggerProvider' = "none"
        BY <3>1, <4>2 DEF OptionsInv, DefaultOptions, ExporterOf
      <4> QED BY <3>1, <4>0, <4>1, <4>2 DEF ExportersInv, Asked
    <3>4. loggerProvider' = "none" <=> options.logs = "off"
      BY <2>0, <3>1, ExporterTypes
    <3>5. PhasesInv' /\ FailureLeavesNothing' /\ NamedBeforeExport'
      BY <2>0, <3>1, <3>4 DEF PhasesInv, FailureLeavesNothing, NamedBeforeExport
    <3> QED BY <2>1, <3>2, <3>3, <3>5
  <2> QED BY <2>2, <2>3
<1>7. ASSUME NEW f \in BOOLEAN, InitializeMetrics(f) PROVE IInv'
  <2> DEFINE secured == options.metricsCertificate
  <2>0. /\ options.metrics \in Transport /\ secured \in BOOLEAN /\ ini \in Ini
        /\ main = "metrics" /\ meterProvider = "none" /\ serviceName # "unset"
        /\ ~metricsInitialized /\ exitCode = "none" /\ exitCode' = exitCode
        /\ UNCHANGED <<fixed, files, options, serviceName, loggerProvider, logger>>
    BY <1>7 DEF InitializeMetrics, Go, TypeOK, Options, PhasesInv, FailureLeavesNothing
  <2>1. OptionsInv' /\ GoneInv'
    BY <2>0, <1>7 DEF InitializeMetrics, Go, OptionsInv, GoneInv, fixed, files
  <2>2. CASE main' # "run"
    <3>1. main' = "report" /\ UNCHANGED <<meterProvider, metricsInitialized>>
      BY <1>7, <2>2 DEF InitializeMetrics, Go
    <3>2. TypeOK'
      BY <2>0, <3>1 DEF TypeOK, fixed, files
    <3>3. PhasesInv' /\ ExportersInv' /\ FailureLeavesNothing' /\ NamedBeforeExport'
      BY <2>0, <3>1 DEF PhasesInv, ExportersInv, FailureLeavesNothing, NamedBeforeExport
    <3> QED BY <2>1, <3>2, <3>3
  <2>3. CASE main' = "run"
    <3>1. /\ meterProvider' = ExporterOf(options.metrics, secured)
          /\ metricsInitialized' = (options.metrics # "off")
      BY <1>7, <2>3 DEF InitializeMetrics, Go
    <3>2. TypeOK'
      BY <2>0, <2>3, <3>1, ExporterTypes DEF TypeOK, fixed, files
    <3>3. ExportersInv'
      <4>0. UNCHANGED <<options, ini, certificateGone, loggerProvider>>
        BY <2>0 DEF fixed, files
      <4>1. ASSUME options.store
            PROVE  meterProvider' \in Asked(ini.httpMetrics, ini.grpcMetrics)
        <5>1. /\ secured => ini.httpMetrics = "absent" /\ ini.grpcMetrics = "secured"
              /\ ini.httpMetrics = "absent" /\ ini.grpcMetrics = "secured" =>
                     secured \/ certificateGone
              /\ ini.httpMetrics = "absent" => ini.grpcMetrics # "wrong"
          BY <4>1 DEF OptionsInv
        <5>2. options.metrics = Choice(ini.httpMetrics, ini.grpcMetrics)
          BY <4>1 DEF OptionsInv
        <5> HIDE DEF secured
        <5> QED BY <2>0, <3>1, <5>1, <5>2, MetricsExporter
      <4>2. ASSUME ~options.store PROVE meterProvider' = "none"
        BY <3>1, <4>2 DEF OptionsInv, DefaultOptions, ExporterOf
      <4> QED BY <2>0, <2>3, <4>0, <4>1, <4>2 DEF ExportersInv, Asked
    <3>4. meterProvider' = "none" <=> options.metrics = "off"
      BY <2>0, <3>1, ExporterTypes
    <3>5. PhasesInv' /\ FailureLeavesNothing' /\ NamedBeforeExport'
      BY <2>0, <2>3, <3>1, <3>4 DEF PhasesInv, FailureLeavesNothing, NamedBeforeExport
    <3> QED BY <2>1, <3>2, <3>3, <3>5
  <2> QED BY <2>2, <2>3
<1>8. CASE ReportFailure
  BY <1>8 DEF ReportFailure, Go, fixed, files, providers, TypeOK, PhasesInv, OptionsInv,
              GoneInv, ExportersInv, FailureLeavesNothing, NamedBeforeExport
<1>9. CASE CleanUp
  BY <1>9 DEF CleanUp, CleanUpLogger, Exit, fixed, files, TypeOK, PhasesInv, OptionsInv,
              GoneInv, ExportersInv, FailureLeavesNothing, NamedBeforeExport, Exporter
<1>10. CASE Run
  BY <1>10 DEF Run, Exit, fixed, files, providers, TypeOK, PhasesInv, OptionsInv, GoneInv,
               ExportersInv, FailureLeavesNothing, NamedBeforeExport
<1>11. CASE TouchFiles
  <2>1. /\ iniExists' \in BOOLEAN /\ certificateExists' \in BOOLEAN
        /\ iniGone' \in BOOLEAN /\ certificateGone' \in BOOLEAN
    <3>1. /\ iniExists \in BOOLEAN /\ certificateExists \in BOOLEAN
          /\ iniGone \in BOOLEAN /\ certificateGone \in BOOLEAN
      BY DEF TypeOK
    <3> QED BY <1>11, <3>1, Zenon DEF TouchFiles
  <2>2. /\ UNCHANGED <<main, exitCode, fixed, options, serviceName, providers, logger>>
        /\ iniGone => iniGone'
        /\ certificateGone => certificateGone'
        /\ GoneInv'
    BY <1>11, Zenon DEF TouchFiles, GoneInv
  <2>3. TypeOK' /\ PhasesInv' /\ FailureLeavesNothing' /\ NamedBeforeExport'
    BY <2>1, <2>2 DEF fixed, providers, TypeOK, PhasesInv, FailureLeavesNothing,
               NamedBeforeExport
  <2>4. OptionsInv'
    BY <2>1, <2>2 DEF fixed, OptionsInv
  <2>5. ExportersInv'
    BY <2>1, <2>2 DEF fixed, providers, ExportersInv, Asked, TypeOK, Ini
  <2> QED BY <2>2, <2>3, <2>4, <2>5
<1> QED BY <1>1, <1>2, <1>3, <1>4, <1>5, <1>6, <1>7, <1>8, <1>9, <1>10, <1>11 DEF Next, Main

\* The invariant of main().
LEMMA StartupInvariant == Spec => []IInv
BY StartupInit, StartupNext, PTL DEF Spec

\* main(): the variables keep their types.
THEOREM TypeCorrect == Spec => []TypeOK
<1>1. IInv => TypeOK
  BY DEF IInv
<1> QED BY <1>1, StartupInvariant, PTL

\* main() leaves no exporter behind when a phase fails after the logger was made.
THEOREM FailureCleanup == Spec => []FailureLeavesNothing
<1>1. IInv => FailureLeavesNothing
  BY DEF IInv
<1> QED BY <1>1, StartupInvariant, PTL

\* main() has the exporters of the file, or none if the file vanished while it was
\* being looked at.
THEOREM Configured == Spec => []RunsAsConfigured
<1>1. IInv => RunsAsConfigured
  BY DEF IInv, RunsAsConfigured, OptionsInv, ExportersInv
<1> QED BY <1>1, StartupInvariant, PTL

\* OTEL_SERVICE_NAME is set before an exporter is made.
THEOREM NameFirst == Spec => []NamedBeforeExport
<1>1. IInv => NamedBeforeExport
  BY DEF IInv
<1> QED BY <1>1, StartupInvariant, PTL

\* The failure of the metrics is reported while the exporter of logs is there.
THEOREM ReportFirst == Spec => []ReportsThroughProvider
<1>1. IInv => ReportsThroughProvider
  BY DEF IInv, PhasesInv, ReportsThroughProvider
<1> QED BY <1>1, StartupInvariant, PTL

============================================================================
