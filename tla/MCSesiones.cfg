\* Two requests at a time, one or two families and their tokens.
SPECIFICATION Spec
CONSTANTS
    f1 = f1  f2 = f2  t1 = t1  t2 = t2  t3 = t3  x1 = x1  x2 = x2  q1 = q1  q2 = q2
    Familias = {f1, f2}
    Tokens = {t1, t2, t3}
    Secretos = {x1}
    Peticiones = {q1, q2}
    MaxFallos = 1
    Ninguno = Ninguno
SYMMETRY Simetria
INVARIANTS TypeOK FallosAcotados MfaConSecreto UnVivoPorFamilia FamiliaMuerta
