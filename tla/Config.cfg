SPECIFICATION Spec
CONSTANTS
    Kinds = {"resource", "property", "target", "init", "signal", "feature", "app"}
    ToInt <- MCToInt
    Names <- MCNames
    Uncreatable = {"b", "c"}
    TargetName = "me"
    Documents <- MCDocuments
    FilesOf <- MCFilesOf
    Preloaded <- MCPreloaded
    Plugins <- MCPlugins
INVARIANTS  KeysResolve
CHECK_DEADLOCK FALSE
