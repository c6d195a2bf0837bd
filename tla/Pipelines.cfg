SPECIFICATION FairRouteSpec
CONSTANTS
  Configs <- ConfigsChecked
  UnifiedConfigs <- UnifiedChecked
  MaxTries = 3
  ReceiverTypes = {"opencensus", "jaeger"}
  ExporterTypes = {"opencensus", "example"}
  ProcessorTypes = {"attributes"}
  TracesExporters = {"opencensus", "example"}
  MetricsExporters = {"example"}
INVARIANTS
  RetriesOnlyTheFailed
  StagesKept
PROPERTY EveryDestinationSettles
CHECK_DEADLOCK FALSE
