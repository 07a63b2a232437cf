CONSTANTS
    s1 = s1
    b1 = b1
    b2 = b2
    alice = alice
    images = images
    cats = cats
    NoRow = NoRow
    Scopes = {s1}
    Scope = s1
    Buckets = {b1, b2}
    Principals = {alice}
    Principal = alice
    Prefixes = {images, cats}
    Keys <- MCKeys
    PrefixesOf <- MCPrefixesOf
    Folders <- MCFolders
    PolicyForms <- MCPolicyForms
    InitialTables <- MCInitialTables
    MaxObjects = 2
    MaxKeysPerPage = 1000
    Characters <- MCCharacters
    NameOf <- MCNameOf
    TextOf <- MCTextOf
    MaxChanges = 2
SPECIFICATION Spec
CHECK_DEADLOCK FALSE
INVARIANTS
    ListedWereThere
    NothingOverlooked
    EntriesCanBeFetched
