\* Two transactions at a time, one payment and three charges.
SPECIFICATION Spec
CONSTANTS
    p1 = p1  p2 = p2  s1 = s1  s2 = s2
    Pagos = {p1}
    NCargos = 3
    Total <- MCTotal
    Importe <- MCImporte
    Corte <- MCCorte
    Pedidos <- MCPedidos
    Sesiones = {s1, s2}
    Ninguno = Ninguno
SYMMETRY Simetria
INVARIANTS TypeOK SumaConLecturaFresca PendienteSinAsignaciones RevertidoSinAsignaciones
PROPERTY FifoPagaLoMasAntiguo
