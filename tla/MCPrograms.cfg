\* Lookup: names of one and two letters, all paths of up to four characters, also with
\* elements that are longer than an entry and with many slashes.
\* Exec: segments that begin and end on, before and behind the edges of pages of 24
\* cells, one or two of them; up to four arguments of up to four characters, of
\* which three of three are kept.
\* Pages: a fresh process takes six pages, two tables of level 0 included; two
\* processes fit into thirteen pages and run out of them in every call.
\* List: two lines on the screen, and lists of at most five.
\* A call ends, panic stops the machine, and Escape the file manager.
SPECIFICATION ProgramsSpec
CONSTANTS
    a = a
    Letter = {a, b}
    Slash = slash
    NUL = nul
    DIRSIZ = 3
    MaxName = 2
    MaxPath = 4
    Device <- DeviceName
    Names <- SomeNames
    Paths <- SomePaths
    Programs <- SomePrograms
    ArgLists <- SomeArgs
    PathLen = 5
    PGSIZE = 24
    Word = 2
    MaxArgs = 4
    MaxArgLen = 4
    Pages = 3
    EndAddr = 96
    Starts = {0, 1, 23, 24, 25, 47, 48}
    Sizes = {1, 2, 23, 24, 25, 47, 49}
    MaxSegs = 2
    MaxLen = 4
    MaxCount = 4
    Procs = {1, 2}
    First = 1
    Phys = {p1, p2, p3, p4, p5, p6, p7, p8, p9, p10, p11, p12, p13}
    Shared = {fb}
    NoPage = NoPage
    Top = 6
    StackPages = 1
    ProgPages = 1
    RegionSize = 2
    Dirs <- MCDirs
    MAX_ENTRIES = 5
    Rows = 2
    MaxLine = 4
INVARIANTS
    LookupExact
    ProgramExact
    PagesConsistent
    ListConsistent
PROPERTIES
    LostOnlyAtTheEnd
VIEW ProgramsView
CHECK_DEADLOCK FALSE
