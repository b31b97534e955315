\* One document, with two downloads at a time, and one claim, with two
\* transitions at a time.
SPECIFICATION Spec
CONSTANTS
    d1 = d1  d2 = d2  r1 = r1  u1 = u1  u2 = u2  a1 = a1  a2 = a2  b1 = b1  b2 = b2
    Docs = {d1}
    Descargas = {a1, a2}
    Escaner = "mock"
    MaxSubidas = 2
    NingunDoc = NingunDoc
    Recls = {r1}
    Usuarios = {u1}
    Tramitadores = {b1, b2}
    MaxHistoria = 2
    Nadie = Nadie
SYMMETRY Simetria
INVARIANTS TypeOK HistoriaFiel DescargaEscaneada
