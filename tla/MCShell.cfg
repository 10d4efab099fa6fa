SPECIFICATION Spec
CONSTANTS
    sh = sh
    c1 = c1
    c2 = c2
    file1 = file1
    file2 = file2
    dir1 = dir1
    Root = Root
    Pipe = Pipe
    None = None
    Processes = {sh, c1, c2}
    First = sh
    Files = {file1, file2}
    Dirs = {dir1}
    Slots = {2, 3}
    FdCnt = 4
    MaxOpen = 2
INVARIANTS DescriptorsLive CountsRight
SYMMETRY Permuted
CHECK_DEADLOCK FALSE
