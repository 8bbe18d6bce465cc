\* Five retries, two conversations to try, trees of up to three nodes, one of
\* them without anything to show.
CONSTANTS
  MaxRetries = 5
  Nodes = {n1, n2, n3}
  NoNode = NoNode
  Shown = {n1, n2}
  MaxItems = 2
SPECIFICATION ExportFairSpec
CHECK_DEADLOCK FALSE
INVARIANTS ExportTypeOK RequestsAreBounded TransientIsExhausted RefusedTwice DeniedOnlyInSweep
           MarkdownIsBranch
PROPERTIES EveryCallReturns ExportEnds
