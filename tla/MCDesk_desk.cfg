SPECIFICATION DeskSpec
CONSTANTS
    n1 = n1
    n2 = n2
    Conversations = {c1, c2}
    Folders = {f1, f2, f3}
    Fresh = {f3}
    Root = Root
    NoLists = NoLists
    Chats = {c1, c2}
    NoChat = NoChat
    Switches = {"titles"}
    Texts = {"system"}
    Talks = {c1, c2}
    Pinnable = {n1}
    Defaults = {d}
    Attachable = {u}
    Paths = {n1, n2}
    Within <- Nested
    Proposals = {p}
    Relations = {r}
    Notes = {n1, n2}
    NoNote = NoNote
    Facets = {"pinned", "tag"}
    Shows <- Tagged
    Conflicts = {a}
    Actions = {x}
    Closed = Closed
    Uploads = {u, v}
    Workers = {w}
    Hosts = {n1, n2}
    CardHosts = {n1}
    Copies = {a}
    Percents = {50, 92, 120}
    Soft = 60
    Hard = 90
    Away = Away
    MaxActs = 2
    MaxFaults = 1
INVARIANTS
    TypeOK
    
    ShownIsOfSelected
    TreeIsWhole
    PromptsCarryTheirPins
    
CHECK_DEADLOCK FALSE

    
