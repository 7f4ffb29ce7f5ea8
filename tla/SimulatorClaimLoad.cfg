CONSTANTS
    Programs <- LoadPrograms
    Spill <- SomeSpill
SPECIFICATION Spec
PROPERTY LoadUsesItsDisplacement
