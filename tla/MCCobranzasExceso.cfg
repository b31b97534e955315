\* Violated: see the finding in PROJECT.json.
SPECIFICATION Spec
CONSTANTS
    p1 = p1  p2 = p2  s1 = s1  s2 = s2
    Pagos = {p1, p2}
    NCargos = 3
    Total <- MCTotal
    Importe <- MCImporte
    Corte <- MCCorte
    Pedidos <- MCPedidos
    Sesiones = {s1}
    Ninguno = Ninguno
INVARIANT CargoNoExcedido
