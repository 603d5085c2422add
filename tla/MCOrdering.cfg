SPECIFICATION Spec
CONSTANTS
    Ids = {a, b, c, d}
    Highest = 3
PROPERTIES
    EveryCallRestores
    CallsOrderTheList
