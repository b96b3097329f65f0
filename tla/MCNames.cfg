CONSTANTS
  Proc = {p1, p2}
  NoProc = NoProc
  NR_INODES = 4
  Name = {"a", "b"}
  DIR_ENTRIES = 2
  Path <- Directories
  Trees <- SmallTrees
  LinkPath <- LinkPaths
  MAX_LINKS = 1
  Op = {"open", "creat", "mknod", "mkdir", "symlink", "link", "unlink", "rmdir", "rename", "readlink"}
  MaxCalls = 2
  Races = FALSE
SPECIFICATION Spec
SYMMETRY Symm
INVARIANTS RefsBalanced LinkCounts Tree
