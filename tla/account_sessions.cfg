\* One developer: two registrations, a login, two refreshes, a logout and two keys
\* The requests are a finite set, each sent once: with all of them over nothing is left to do.
CHECK_DEADLOCK FALSE
SPECIFICATION Spec
CONSTANTS
    Emails = {e1}
    Registrations = {register1, register2}
    Logins = {login1}
    Refreshes = {refresh1, refresh2}
    Logouts = {logout1}
    Creations = {create1, create2}
    Email <- MCEmail
    Name <- MCName
    NoEmail = NoEmail
    NoToken = NoToken
SYMMETRY MCSymmetry
INVARIANTS TypeOK OneAccountPerEmail AccountHasSession RotatedOut
PROPERTIES RevokedIsFinal DisabledGetsNothing NameStaysTaken
