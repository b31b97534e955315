\* Two workers whose role owns the tables and one whose role does not, two
\* publications of one comunicado and a liquidacion, one crash or database error.
\* No symmetry: EventosAtendidos is a liveness property.
SPECIFICATION Spec
CONSTANTS
    s1 = s1  s2 = s2  k1 = k1  k2 = k2  w1 = w1  w2 = w2  w3 = w3
    Comunicados = {"c1"}
    Liquidaciones = {"x1"}
    Claves = {k1, k2}
    Sesiones = {s1, s2}
    Workers = {w1, w2, w3}
    NUsuarios = 2
    Estables = {1}
    Lote = 2
    Duenos = {w1, w2}
    MaxFallas = 1
    Ninguno = Ninguno
INVARIANTS TypeOK UnSoloDueno AvisoUnico FanOutAtomico
PROPERTIES RefinaBuzon EventosAtendidos
