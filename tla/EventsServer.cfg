\* Lab 22: three clients share two server connections.
SPECIFICATION Spec
CONSTANTS
    Nobody = Nobody
    Clients = {c1, c2, c3}
    NoClient = NoClient
    Scoids = {1, 2}
    CountMod = 3
INVARIANTS SavedAgree ValuesFollow UnblockComesLate
PROPERTIES RegisteredWhileAlive RequestAnswered RegistrationServed
