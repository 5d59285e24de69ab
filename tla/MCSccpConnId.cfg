SPECIFICATION Spec
CONSTANT IdSpace = 8
INVARIANT TypeOK
PROPERTY IdIsNew
PROPERTY GivesUpLate
PROPERTY NotTwiceInARow
