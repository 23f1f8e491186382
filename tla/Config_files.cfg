SPECIFICATION Spec
CONSTANTS
    DisableSunpike <- Both
    MaxSpecs = 3
    MaxKills = 2
    MaxErrors = 1
    MaxChanges = 3
INVARIANTS TypeOK ComparedIsWrittenLast  
PROPERTIES ConfigIsPickedUp 
