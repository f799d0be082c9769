CONSTANTS
    Letters = {"x"}
    CharFormats <- MCCharFormats
    Plain = "plain"
    ParaFormats <- MCParaFormats
    Numbered = {"number"}
    Left = "left"
    UndoCap = 3
    Widths = {2, 3}
    PageLines = 2
    MaxOps = 2
    MaxTurns = 1
    Paths = {"notes"}
    Seeds <- MCSeeds
    Alignments = {"right"}
    StyleNames = {"body"}
    Needle <- MCNeedle
    Replacement <- MCReplacement
    ScriptText <- MCScriptText
SPECIFICATION Spec
INVARIANTS TypeOK LinesAreCurrent CleanMeansSaved UndoIsExact
CHECK_DEADLOCK FALSE
