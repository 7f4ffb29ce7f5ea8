\* Every program of three templates, against the machine it is written for.
CONSTANTS
    Programs <- ScriptPrograms
    Spill <- NoSpill
SPECIFICATION Spec
PROPERTY ImplementsMachine
