CONSTANTS
    Kind <- Tabs
    Image = {i1, i2}
    Nothing = Nothing
    Job = {j1, j2}
    Page <- Pages
    MaxRequests = 3
SPECIFICATION StaffSpec
SYMMETRY Sym
 
PROPERTIES ShowsOwnSave
