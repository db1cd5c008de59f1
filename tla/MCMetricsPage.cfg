\* Two queries, of which the second brings the data to their limits: twice it
\* is too much.  Half an hour, and a week in chunks.
SPECIFICATION AnsweringSpec
CONSTANTS
  few = few  many = many  lots = lots  Blank = Blank
  Text = {few, many}
  SeriesCount <- MCSeriesCount
  Spans <- MCSpans
  DefaultSpan = 1800
  Chunk = 86400
  MinStep = 5
  MinSamples = 10
  MaxSamples = 300
  MaxDataPointsSoft = 6000
  MaxDataPointsHard = 10000
  SamplesLeeway = 5
  MaxRows = 3
  Urls <- MCUrls
  MaxEdits = 2
  MaxPatientEdits = 3
  MaxFailures = 1
INVARIANTS RowsTypeOK NotTooManyPoints TablesShowTheirQuery ButtonsMatchGraph
PROPERTIES ReloadKeepsQueries LoadingEnds
\* The user stops after MaxEdits events.
CHECK_DEADLOCK FALSE
