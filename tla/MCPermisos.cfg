\* Two requests of a process, two changes of roles, a cache of two ticks.
SPECIFICATION Spec
CONSTANTS
    q1 = q1  q2 = q2
    Peticiones = {q1, q2}
    TTL = 2
    Demora = 2
    MaxCambios = 2
    MaxReloj = 6
    Ninguno = Ninguno
SYMMETRY Simetria
INVARIANTS TypeOK DecisionFresca
