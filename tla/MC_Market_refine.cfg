CONSTANTS
    b1 = b1
    b2 = b2
    Borrowers <- MC_Borrowers
    S = 10
    Rates = {1, 3}
    ReserveFactor = 3
    Amounts = {0, 1, 2}
    Limits = {1, 3}
    MaxHeight = 3
SPECIFICATION Spec
SYMMETRY MC_Symmetry
PROPERTIES LoanBookRefined
