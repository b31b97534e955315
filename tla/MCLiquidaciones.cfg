\* Two liquidaciones of one month (the second after the first is annulled), two
\* transactions at a time, two keys that both may use.
SPECIFICATION Spec
CONSTANTS
    l1 = l1  l2 = l2  u1 = u1  u2 = u2  s1 = s1  s2 = s2  k1 = k1  k2 = k2
    Liqs = {l1, l2}
    Periodos = {"202609"}
    UFs = {u1, u2}
    Repartos <- MCRepartos
    Fechas = {"d1"}
    Claves = {k1, k2}
    Sesiones = {s1, s2}
    MaxVersion = 3
    Ninguno = Ninguno
SYMMETRY Simetria
INVARIANTS TypeOK DeudaDeUnCalculo LibroCuadra EventoSiiPublicada ClaveDeUnEfecto PeriodoCobradoUnaVez
PROPERTY RefinaLibro
