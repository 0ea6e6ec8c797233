\* Two logins and a logout that overlap, a page, and a click, which reads the
\* name twice where a responder reads it once.
SPECIFICATION SessionSpec
CONSTANTS
    loginA = loginA  loginB = loginB  logout = logout
    page = page  click = click
    Login = {loginA, loginB}
    Logout = {logout}
    Page = {page}
    Click = {click}
    Responder = {}
    NameOf <- Names
    NoOne = NoOne
INVARIANTS
    NamesAreWhole
    CurrentNameIsAnnounced
PROPERTIES
    NamedReadersSurvive
