\* Annotations on two ids arriving before and after their definitions.
CONSTANTS
  Ids = {1, 2}
  FunctionIds = {1}
  DecorationKinds = {"Location", "LinkageAttributes"}
  Linkage = "LinkageAttributes"
  Literals = {0, 1}
  Members = {0}
  Names = {"", "foo", "main"}
  NoName = ""
  NameLength <- MCNameLength
  ExecModels = {"GLCompute"}
  EntryPointInstrs <- MCEntryPointInstrs
  ModeInstrs <- MCModeInstrs
  DecorationInstrs <- MCDecorationInstrs
  NextWord = 99
  MaxDecorations = 2
  MaxEntryPoints = 1
  MaxModuleDecorations = 2
  MaxModeCalls = 1
SPECIFICATION Spec
PROPERTY SpirvEntryRefinesStore
CHECK_DEADLOCK FALSE
