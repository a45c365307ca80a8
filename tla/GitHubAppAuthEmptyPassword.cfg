SPECIFICATION Spec
CONSTANTS
    Goroutine = {g1, g2, g3}
    Nil = nil
    Lifetime = 3
    Margin = 2
    Delay = 1
    Horizon = 5
INVARIANTS
    PasswordIsNotEmpty
SYMMETRY MCSymmetry
