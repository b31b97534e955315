\* Two jobs on the same two unidades, two keys, two requests at a time.
SPECIFICATION Spec
CONSTANTS
    j1 = j1  j2 = j2  p1 = p1  p2 = p2  k1 = k1  k2 = k2  s1 = s1  s2 = s2
    Jobs = {j1, j2}
    Archivo <- MCArchivo
    Codigos = {"A", "B"}
    Personas = {p1, p2}
    Claves = {k1, k2}
    Sesiones = {s1, s2}
    Ninguno = Ninguno
SYMMETRY Simetria
INVARIANTS TypeOK AplicadoUnaVez ResumenFiel
PROPERTY RefinaPadron
