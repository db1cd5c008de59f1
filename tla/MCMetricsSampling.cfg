\* One query with 268 series, half an hour or two weeks of data.
SPECIFICATION FairSpec
CONSTANTS
  few = few  many = many  lots = lots  Blank = Blank
  Text = {lots}
  SeriesCount <- MCSeriesCount
  Spans <- MCLongSpans
  DefaultSpan = 1800
  Chunk = 86400
  MinStep = 5
  MinSamples = 10
  MaxSamples = 300
  MaxDataPointsSoft = 6000
  MaxDataPointsHard = 10000
  SamplesLeeway = 5
  MaxRows = 1
  Urls <- MCOneUrl
  MaxEdits = 1
  MaxPatientEdits = 1
  MaxFailures = 0
PROPERTIES LoadingEnds
\* The user stops after MaxEdits events.
CHECK_DEADLOCK FALSE
