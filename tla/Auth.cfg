SPECIFICATION AuthSpec
CONSTANTS
    Requests = {r1, r2, r3}
    People = {"ann", "bob", "eve"}
    Emails = {"a@x", "b@x", "c@x"}
    Members = {"ann", "bob"}
    EmailOf <- MCEmailOf
    None = None
SYMMETRY MCSymmetry
INVARIANTS
    EmailHasOneOwner
    DeadCredentialsAreRefused
    TrailTellsAll
