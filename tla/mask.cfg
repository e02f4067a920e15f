\* Both versions against baseMask, on every image of up to 3 by 3 pixels.
CONSTANTS
    N = 3
    Versions = {"mask1", "mask2"}
    Pixels = {1, 200}
    Junk = 77
SPECIFICATION Spec
INVARIANTS SameAsBase BaseIsTheMean
\* The program ends when the answers have been compared.
CHECK_DEADLOCK FALSE
