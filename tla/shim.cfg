\* Three helpers of two Discords, one after the other, the last for the Discord of the
\* first; each may be stopped anywhere. One address, used again and again.
SPECIFICATION CaptureSpec
CONSTANTS
    h1 = h1
    h2 = h2
    h3 = h3
    p1 = p1
    p2 = p2
    Helper = {h1, h2, h3}
    Parent = {p1, p2}
    ParentOf <- FirstAndLast
    App = {i1, i2}
    Selections = {{}, {i1}}
    Inode = {n1, n2, n3}
    Alone = TRUE
    Shimmed = p1
    Addr = {s1}
    Input = {i1, i2}
SYMMETRY Inodes
INVARIANTS
    NeverMicrophone
    AllowedHeard
    
    
    
    
\* All helpers may be gone, and the list is not read any more.
CHECK_DEADLOCK FALSE
