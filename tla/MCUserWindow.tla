--------------------------- MODULE MCUserWindow ---------------------------
EXTENDS UserWindowHandOff, TLC
FramesSymmetry == Permutations(Frames)
============================================================================
