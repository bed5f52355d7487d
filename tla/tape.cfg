\* A unit with one of six images, whole or damaged, and a guest that sends any command.
SPECIFICATION Spec
CONSTANTS
    Images <- SomeImages
    Lengths = {2, 3}
    Cells = {0, 2}
    MaxCount = 2
    Chunk = 1
    MaxCells = 10
    MaxFaults = 1
VIEW State
PROPERTIES ImplementsReel OnlyAhead
