\* One liquidacion, a confirmation beside a recalculation: the first with the
\* version that the second is about to make.
SPECIFICATION Spec
CONSTANTS
    l1 = l1  l2 = l2  u1 = u1  u2 = u2  s1 = s1  s2 = s2  k1 = k1  k2 = k2
    Liqs = {l1}
    Periodos = {"202609"}
    UFs = {u1, u2}
    Repartos <- MCRepartos
    Fechas = {"d1"}
    Claves = {k1, k2}
    Sesiones = {s1, s2}
    MaxVersion = 3
    Ninguno = Ninguno
SYMMETRY SinLiqs
INVARIANT DeudaSegunReparto
