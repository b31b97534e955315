\* Two transactions, two keys and two contents, two checkouts, one failure.
SPECIFICATION Spec
CONSTANTS
    k1 = k1  k2 = k2  d1 = d1  d2 = d2  s1 = s1  s2 = s2
    Claves = {k1, k2}
    Datos = {d1, d2}
    Referencia <- MCReferencia
    Pedidos <- MCPedidos
    NPagos = 2
    NPrefs = 2
    Sesiones = {s1, s2}
    MaxFallas = 1
    Ninguno = Ninguno
INVARIANTS TypeOK PagoConSuIntento PerdidaSoloReemplazada
PROPERTY PagadoSeAcredita
