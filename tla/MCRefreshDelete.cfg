\* Two domains, two addresses; a name is dropped while its round resolves.
CONSTANTS
    d1 = d1  d2 = d2  a1 = a1  a2 = a2
    Domain = {d1, d2}
    Address = {a1, a2}
    Configured = {d1}
    RecordLife = 1
    MaxTTL = 1
SPECIFICATION RSpec
PROPERTY PublishEntersNoName
