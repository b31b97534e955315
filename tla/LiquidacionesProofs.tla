------------------------ MODULE LiquidacionesProofs --------------------------
(* Theorems about Liquidaciones, for any number of liquidaciones, units,     *)
(* sessions, keys and versions.  IInv is the inductive invariant: beside the *)
(* properties it says what a liquidacion holds in each estado and what a     *)
(* transaction may still rely on after the reads it has done.                *)
EXTENDS Liquidaciones, TLAPS

\* What a row of liquidaciones holds.
FilaOK(l) ==
    /\ liq[l].estado # "inexistente" =>
         liq[l].periodo \in Periodos /\ liq[l].venc \in Fechas /\ liq[l].version >= 1
    /\ Posteada(l) \/ liq[l].estado = "calculada" =>
         liq[l].reparto \in Repartos /\ liq[l].reparto \in calculados[l]

\* Only a liquidacion that was confirmed has charges.
SinCargos(l) ==
    liq[l].estado \in {"inexistente", "borrador", "calculada"} => CargosDe(l) = {}

\* A running request names an existing liquidacion.
PedidoOK(s) ==
    /\ s.op \in Ops /\ s.l \in Liqs
    /\ s.op # "anular" => s.clave \in Claves
    /\ liq[s.l].estado # "inexistente"
    /\ s.paso = "sellar" => s.op # "anular"
    /\ s.paso = "preparar" => s.op \in {"confirmar", "anular"}

\* What the first read of a transaction established and nobody can undo.
LecturaOK(s) ==
    /\ s.visto \in Admite(s.op)
    /\ s.visto # "borrador" =>
         liq[s.l].estado # "borrador" /\ s.venc = liq[s.l].venc
    /\ s.visto = "confirmada" =>
         liq[s.l].estado \in {"confirmada", "publicada", "anulada"}
    /\ s.op = "calcular" => s.reparto \in Repartos
    /\ s.op = "confirmar" /\ ~s.adelantado => s.exp <= liq[s.l].version

\* What the second read established.  The snapshot was committed once, and it is
\* still the one of the row when the version has not moved and If-Match was not
\* ahead of it; the charges to reverse are those left while l is confirmada.
PreparadoOK(s) ==
    /\ s.op = "confirmar" =>
         /\ liq[s.l].estado = "calculada" => s.reparto \in calculados[s.l]
         /\ ~s.adelantado /\ liq[s.l].version = s.exp => s.reparto = liq[s.l].reparto
    /\ s.op = "anular" =>
         /\ s.visto # "confirmada" => s.revertir = {}
         /\ s.visto = "confirmada" /\ liq[s.l].estado = "confirmada" =>
              s.revertir = Pendientes(s.l)

SesionOK(s) ==
    s.paso # "libre" =>
        /\ PedidoOK(s)
        /\ LecturaOK(s)
        /\ s.paso = "escribir" => PreparadoOK(s)

FilasOK    == \A l \in Liqs : FilaOK(l) /\ SinCargos(l)
SesionesOK == \A w \in Sesiones : SesionOK(ses[w])

IInv == TypeOK /\ FilasOK /\ SesionesOK /\ DeudaDeUnCalculo /\ CargosUnaVez

-----------------------------------------------------------------------------
(* Lemmas *)

\* A session with no transaction is well typed and relies on nothing.
LEMMA LibreEnSesion == SesionLibre \in Sesion /\ SesionOK(SesionLibre)
  BY DEF SesionLibre, Sesion, Pasos, Estados, SesionOK

\* The empty tables satisfy the invariant.
LEMMA InitInv == Init => IInv
<1> SUFFICES ASSUME Init PROVE IInv
  OBVIOUS
<1>1. TypeOK
  <2>1. liq \in [Liqs -> Liquidacion]
    BY DEF Init, Inexistente, Liquidacion, Estados
  <2>2. ses \in [Sesiones -> Sesion]
    BY LibreEnSesion DEF Init
  <2>3. idem \in [Ambitos -> [Claves -> [liq: Liqs, version: Nat] \cup {Ninguno}]]
    BY DEF Init
  <2> QED BY <2>1, <2>2, <2>3 DEF TypeOK, Init
<1>2. FilasOK
  BY DEF Init, Inexistente, FilasOK, FilaOK, Posteada, SinCargos, CargosDe
<1>3. SesionesOK
  BY LibreEnSesion DEF Init, SesionesOK
<1>4. DeudaDeUnCalculo /\ CargosUnaVez
  BY DEF Init, Inexistente, DeudaDeUnCalculo, DeudaDe, CargosUnaVez, Posteada
<1> QED BY <1>1, <1>2, <1>3, <1>4 DEF IInv

\* A step that changes no table, only the session of w, preserves the invariant
\* when the new session is in order.
LEMMA SoloSesion ==
  ASSUME IInv, NEW w \in Sesiones, NEW x \in Sesion, SesionOK(x),
         ses' = [ses EXCEPT ![w] = x],
         UNCHANGED <<liq, gastos, cargos, asientos, eventos, idem, historia>>
  PROVE  IInv'
<1> USE DEF historia
<1>1. TypeOK'
  BY DEF IInv, TypeOK
<1>2. FilasOK'
  BY DEF IInv, FilasOK, FilaOK, SinCargos, CargosDe, Posteada
<1>3. SesionesOK'
  <2> SUFFICES ASSUME NEW v \in Sesiones
               PROVE  SesionOK(ses[v])'
    BY DEF SesionesOK
  <2>1. SesionOK(ses'[v])
    BY DEF IInv, TypeOK, SesionesOK
  <2>2. PedidoOK(ses'[v]) => PedidoOK(ses[v])'
    BY DEF PedidoOK
  <2>3. LecturaOK(ses'[v]) => LecturaOK(ses[v])'
    BY DEF LecturaOK
  <2>4. PreparadoOK(ses'[v]) => PreparadoOK(ses[v])'
    BY DEF PreparadoOK, Pendientes
  <2> QED BY <2>1, <2>2, <2>3, <2>4 DEF SesionOK
<1>4. DeudaDeUnCalculo' /\ CargosUnaVez'
  BY DEF IInv, DeudaDeUnCalculo, DeudaDe, CargosUnaVez, Posteada, CargosDe
<1> QED BY <1>1, <1>2, <1>3, <1>4 DEF IInv

\* A request that ends without writing.
LEMMA SinEscribir ==
  ASSUME IInv, NEW w \in Sesiones, ses[w].paso # "libre",
         Terminar(w),
         UNCHANGED <<liq, gastos, cargos, asientos, eventos, idem, historia>>
  PROVE  IInv'
<1> QED BY LibreEnSesion, SoloSesion DEF Terminar

\* The arrival of a request and its first read, with the check of estado
\* (parseIfMatch, GetLiquidacion), establish LecturaOK for the session.
LEMMA RecibirInv ==
  ASSUME IInv, NEW w \in Sesiones, NEW op \in Ops, NEW l \in Liqs,
         NEW k \in Claves \cup {Ninguno}, NEW v \in Versiones,
         Recibir(w, op, l, k, v)
  PROVE  IInv'
<1> DEFINE f == liq[l]
           p == IF op = "anular" THEN "preparar" ELSE "sellar"
           r == IF op = "calcular" THEN gastos[f.periodo] ELSE Ninguno
           b == op = "confirmar" /\ v > f.version
           x == [SesionLibre EXCEPT !.paso = p, !.op = op, !.l = l, !.clave = k,
                                    !.exp = v, !.visto = f.estado, !.venc = f.venc,
                                    !.reparto = r, !.adelantado = b]
<1>1. f \in Liquidacion /\ FilaOK(l)
  BY DEF IInv, TypeOK, FilasOK
<1>2. /\ f.estado \in Admite(op) /\ f.estado # "inexistente"
      /\ (op = "anular") <=> (k = Ninguno)
      /\ op = "calcular" => gastos[f.periodo] # Ninguno
  BY DEF Recibir, Admite, Ops, Ambitos
<1>3. op = "calcular" => r \in Repartos
  BY <1>1, <1>2 DEF IInv, TypeOK, FilaOK
<1>4. v \in Nat /\ f.version \in Nat
  BY <1>1, MaxVersionAssumption DEF Versiones, Liquidacion
<1>5. p \in {"preparar", "sellar"} /\ (p = "preparar" <=> op = "anular")
  OBVIOUS
<1>6. /\ x \in Sesion
      /\ x.paso = p /\ x.op = op /\ x.l = l /\ x.clave = k /\ x.exp = v
      /\ x.visto = f.estado /\ x.venc = f.venc /\ x.reparto = r
      /\ x.adelantado = b
  <2>1. f.estado \in Estados /\ f.venc \in Fechas \cup {Ninguno}
    BY <1>1 DEF Liquidacion
  <2>2. PICK pp \in Pasos, d \in Fechas \cup {Ninguno},
             rr \in Repartos \cup {Ninguno}, q \in BOOLEAN :
             pp = p /\ d = f.venc /\ rr = r /\ q = b
    BY <1>3, <2>1 DEF Pasos
  <2>3. PICK e \in Estados : e = f.estado
    BY <2>1
  <2> DEFINE y == [SesionLibre EXCEPT !.paso = pp, !.op = op, !.l = l, !.clave = k,
                                      !.exp = v, !.visto = e, !.venc = d,
                                      !.reparto = rr, !.adelantado = q]
  <2>4. x = y
    BY <2>2, <2>3
  <2>5. /\ y \in Sesion
        /\ y.paso = pp /\ y.op = op /\ y.l = l /\ y.clave = k /\ y.exp = v
        /\ y.visto = e /\ y.venc = d /\ y.reparto = rr /\ y.adelantado = q
    <3>1. SesionLibre \in Sesion
      BY LibreEnSesion
    <3> HIDE DEF f, p, r, b, x
    <3> QED BY <1>4, <3>1 DEF Sesion
  <2> HIDE DEF f, p, r, b, x, y
  <2> QED BY <2>2, <2>3, <2>4, <2>5, Zenon
<1>7. SesionOK(x)
  <2>1. op = "confirmar" /\ ~x.adelantado => v <= f.version
    <3>1. x.adelantado = b
      BY <1>6, Zenon
    <3>2. op = "confirmar" /\ ~b => v <= f.version
      BY <1>4
    <3> QED BY <3>1, <3>2, Zenon
  <2> HIDE DEF p, r, b, x
  <2>2. PedidoOK(x)
    BY <1>2, <1>5, <1>6 DEF PedidoOK
  <2>3. LecturaOK(x)
    BY <1>2, <1>3, <1>6, <2>1 DEF LecturaOK
  <2> QED BY <1>5, <1>6, <2>2, <2>3 DEF SesionOK
<1>8. ses' = [ses EXCEPT ![w] = x]
  BY DEF Recibir, Seguir
<1>9. UNCHANGED <<liq, gastos, cargos, asientos, eventos, idem, historia>>
  BY DEF Recibir
<1> HIDE DEF x
<1> QED BY <1>6, <1>7, <1>8, <1>9, SoloSesion

\* stampIdempotency keeps what the session read before it.
LEMMA SellarInv ==
  ASSUME IInv, NEW w \in Sesiones, Sellar(w)
  PROVE  IInv'
<1> DEFINE s == ses[w]
           x == [s EXCEPT !.paso = IF s.op = "confirmar"
                                   THEN "preparar" ELSE "escribir"]
<1>1. s \in Sesion /\ SesionOK(s) /\ s.paso = "sellar"
  BY DEF IInv, TypeOK, SesionesOK, Sellar
<1>2. PedidoOK(s) /\ LecturaOK(s)
  BY <1>1 DEF SesionOK
<1>3. CASE Terminar(w)
  BY <1>1, <1>3, SinEscribir DEF Sellar
<1>4. CASE Seguir(w, x)
  <2>1. x \in Sesion
    BY <1>1 DEF Sesion, Pasos
  <2>2. PedidoOK(x) /\ LecturaOK(x)
    BY <1>1, <1>2 DEF PedidoOK, LecturaOK, Sesion
  <2>3. x.paso = "escribir" => PreparadoOK(x)
    BY <1>1, <1>2 DEF PedidoOK, PreparadoOK, Sesion
  <2>4. SesionOK(x)
    BY <2>2, <2>3 DEF SesionOK
  <2>5. ses' = [ses EXCEPT ![w] = x]
    BY <1>4 DEF Seguir
  <2> HIDE DEF x
  <2> QED BY <2>1, <2>4, <2>5, SoloSesion DEF Sellar
<1> QED BY <1>3, <1>4 DEF Sellar

\* The second read of confirmar and anular establishes PreparadoOK.
LEMMA PrepararInv ==
  ASSUME IInv, NEW w \in Sesiones, Preparar(w)
  PROVE  IInv'
<1> DEFINE s == ses[w]
           c == [s EXCEPT !.paso = "escribir", !.reparto = liq[s.l].reparto]
           a == [s EXCEPT !.paso = "escribir",
                          !.revertir = IF s.visto = "confirmada"
                                       THEN Pendientes(s.l) ELSE {}]
<1>1. s \in Sesion /\ SesionOK(s) /\ s.paso = "preparar"
  BY DEF IInv, TypeOK, SesionesOK, Preparar
<1>2. PedidoOK(s) /\ LecturaOK(s)
  BY <1>1 DEF SesionOK
<1>3. liq[s.l] \in Liquidacion /\ cargos \subseteq Cargo /\ FilaOK(s.l)
  BY <1>2 DEF IInv, TypeOK, PedidoOK, FilasOK
<1>4. CASE s.op = "confirmar" /\ Seguir(w, c)
  <2>1. c \in Sesion
    BY <1>1, <1>3 DEF Sesion, Pasos, Liquidacion
  <2>2. PedidoOK(c) /\ LecturaOK(c) /\ PreparadoOK(c)
    BY <1>1, <1>2, <1>3, <1>4 DEF PedidoOK, LecturaOK, PreparadoOK, Sesion, FilaOK
  <2>3. SesionOK(c)
    BY <2>2 DEF SesionOK
  <2>4. ses' = [ses EXCEPT ![w] = c]
    BY <1>4 DEF Seguir
  <2> HIDE DEF c
  <2> QED BY <2>1, <2>3, <2>4, SoloSesion DEF Preparar
<1>5. CASE s.op = "anular" /\ Seguir(w, a)
  <2>1. a \in Sesion
    BY <1>1, <1>3 DEF Sesion, Pasos, Pendientes
  <2>2. PedidoOK(a) /\ LecturaOK(a) /\ PreparadoOK(a)
    BY <1>1, <1>2, <1>5 DEF PedidoOK, LecturaOK, PreparadoOK, Sesion
  <2>3. SesionOK(a)
    BY <2>2 DEF SesionOK
  <2>4. ses' = [ses EXCEPT ![w] = a]
    BY <1>5 DEF Seguir
  <2> HIDE DEF a
  <2> QED BY <2>1, <2>3, <2>4, SoloSesion DEF Preparar
<1> QED BY <1>4, <1>5 DEF Preparar

\* CreateLiquidacion: no session and no charge can name the new row.
LEMMA CrearInv ==
  ASSUME IInv, NEW l \in Liqs, NEW p \in Periodos, NEW f \in Fechas, Crear(l, p, f)
  PROVE  IInv'
<1> DEFINE x == [estado |-> "borrador", version |-> 1, periodo |-> p, venc |-> f,
                 reparto |-> Ninguno]
<1>1. x \in Liquidacion
  BY DEF Liquidacion, Estados
<1>2. /\ liq \in [Liqs -> Liquidacion]
      /\ liq[l].estado = "inexistente"
      /\ \A m \in Liqs : liq'[m] = IF m = l THEN x ELSE liq[m]
  BY DEF IInv, TypeOK, Crear, historia
<1>3. TypeOK'
  BY <1>1 DEF IInv, TypeOK, Crear, historia
<1>4. x.estado = "borrador" /\ x.version = 1 /\ x.periodo = p /\ x.venc = f
  OBVIOUS
<1> HIDE DEF x
<1>5. FilasOK'
  BY <1>2, <1>4 DEF IInv, FilasOK, FilaOK, SinCargos, CargosDe, Posteada, Crear, historia
<1>6. SesionesOK'
  <2> SUFFICES ASSUME NEW v \in Sesiones, ses[v].paso # "libre"
               PROVE  SesionOK(ses[v])'
    BY DEF SesionesOK, SesionOK, Crear, historia
  <2>1. SesionOK(ses[v]) /\ PedidoOK(ses[v])
    BY DEF IInv, SesionesOK, SesionOK
  <2>2. liq'[ses[v].l] = liq[ses[v].l]
    BY <2>1, <1>2 DEF PedidoOK
  <2> QED
    BY <2>1, <2>2 DEF SesionOK, PedidoOK, LecturaOK, PreparadoOK, Pendientes, Crear, historia
<1>7. DeudaDeUnCalculo'
  BY <1>2, <1>4 DEF IInv, DeudaDeUnCalculo, DeudaDe, Posteada, CargosDe,
                    Crear, historia
<1>8. CargosUnaVez'
  BY <1>2, <1>4 DEF IInv, TypeOK, Cargo, CargosUnaVez, Posteada, Crear, historia
<1> QED BY <1>3, <1>5, <1>6, <1>7, <1>8 DEF IInv

\* UpdateVencimientos changes the due date of a borrador only, on which no session
\* relies and from which no charge comes.
LEMMA PatchInv ==
  ASSUME IInv, NEW l \in Liqs, NEW f \in Fechas, NEW n \in Versiones,
         Patch(l, n, f)
  PROVE  IInv'
<1> DEFINE x == [liq[l] EXCEPT !.venc = IF Editable(l, n) THEN f ELSE liq[l].venc]
<1>1. liq \in [Liqs -> Liquidacion]
  BY DEF IInv, TypeOK
<1>2. x \in Liquidacion
  BY <1>1 DEF Liquidacion
<1>3. /\ x.estado = liq[l].estado /\ x.version = liq[l].version
      /\ x.periodo = liq[l].periodo /\ x.reparto = liq[l].reparto
      /\ x.venc \in {f, liq[l].venc}
      /\ x.estado # "borrador" => x.venc = liq[l].venc
  BY <1>1 DEF Liquidacion, Editable
<1>4. /\ \A m \in Liqs : liq'[m] = IF m = l THEN x ELSE liq[m]
      /\ liq' = [liq EXCEPT ![l] = x]
  BY <1>1 DEF Patch
<1>5. TypeOK'
  <2>1. liq' \in [Liqs -> Liquidacion]
    BY <1>1, <1>2, <1>4
  <2> QED BY <2>1 DEF IInv, TypeOK, Patch, historia
<1> HIDE DEF x
<1>6. FilasOK'
  BY <1>3, <1>4 DEF IInv, FilasOK, FilaOK, SinCargos, CargosDe, Posteada, Patch, historia
<1>7. SesionesOK'
  <2> SUFFICES ASSUME NEW v \in Sesiones, ses[v].paso # "libre"
               PROVE  SesionOK(ses[v])'
    BY DEF SesionesOK, SesionOK, Patch, historia
  <2>1. SesionOK(ses[v]) /\ PedidoOK(ses[v])
    BY DEF IInv, SesionesOK, SesionOK
  <2>2. LET m == ses[v].l
        IN  /\ liq'[m].estado = liq[m].estado /\ liq'[m].version = liq[m].version
            /\ liq'[m].reparto = liq[m].reparto
            /\ liq[m].estado # "borrador" => liq'[m].venc = liq[m].venc
    BY <2>1, <1>3, <1>4 DEF PedidoOK
  <2> QED
    BY <2>1, <2>2 DEF SesionOK, PedidoOK, LecturaOK, PreparadoOK, Pendientes, Patch, historia
<1>8. DeudaDeUnCalculo'
  <2>1. ASSUME NEW m \in Liqs, Posteada(m)'
        PROVE  /\ Posteada(m) /\ CargosDe(m)' = CargosDe(m)
               /\ liq'[m].version = liq[m].version /\ liq'[m].venc = liq[m].venc
               /\ liq'[m].reparto = liq[m].reparto
    BY <2>1, <1>3, <1>4 DEF Posteada, CargosDe, Patch, historia
  <2> QED BY <2>1 DEF IInv, DeudaDeUnCalculo, DeudaDe, Patch, historia
<1>9. CargosUnaVez'
  BY <1>3, <1>4 DEF IInv, TypeOK, Cargo, CargosUnaVez, Posteada, Patch, historia
<1> QED BY <1>5, <1>6, <1>7, <1>8, <1>9 DEF IInv

\* New gastos do not reach a snapshot that was taken (CreateGasto).
LEMMA CambiarGastosInv ==
  ASSUME IInv, NEW p \in Periodos, NEW r \in Repartos \cup {Ninguno},
         CambiarGastos(p, r)
  PROVE  IInv'
<1>1. TypeOK'
  BY DEF IInv, TypeOK, CambiarGastos, historia
<1>2. FilasOK'
  BY DEF IInv, FilasOK, FilaOK, SinCargos, CargosDe, Posteada, CambiarGastos, historia
<1>3. SesionesOK'
  BY DEF IInv, SesionesOK, SesionOK, PedidoOK, LecturaOK, PreparadoOK, Pendientes,
         CambiarGastos, historia
<1>4. DeudaDeUnCalculo' /\ CargosUnaVez'
  BY DEF IInv, DeudaDeUnCalculo, DeudaDe, CargosUnaVez, Posteada, CargosDe,
         CambiarGastos, historia
<1> QED BY <1>1, <1>2, <1>3, <1>4 DEF IInv

\* What a session about to write knows.
LEMMA AlEscribir ==
  ASSUME IInv, NEW w \in Sesiones, ses[w].paso = "escribir"
  PROVE  /\ ses[w] \in Sesion /\ ses[w].l \in Liqs /\ ses[w].op \in Ops
         /\ PedidoOK(ses[w]) /\ LecturaOK(ses[w]) /\ PreparadoOK(ses[w])
         /\ liq[ses[w].l] \in Liquidacion /\ FilaOK(ses[w].l) /\ SinCargos(ses[w].l)
<1>1. SesionOK(ses[w]) /\ ses[w] \in Sesion
  BY DEF IInv, SesionesOK, TypeOK
<1>2. PedidoOK(ses[w]) /\ LecturaOK(ses[w]) /\ PreparadoOK(ses[w])
  BY <1>1 DEF SesionOK
<1> QED BY <1>1, <1>2 DEF PedidoOK, IInv, TypeOK, FilasOK

\* The transition of one liquidacion: every other session either works on
\* another one or has lost what it read, which is what no transition back to an
\* earlier estado is needed for.
LEMMA Transicion ==
  ASSUME IInv, NEW w \in Sesiones, ses[w].paso = "escribir", Vigente(ses[w]),
         NEW e \in {"calculada", "confirmada", "publicada", "anulada"},
         NEW r \in Repartos \cup {Ninguno},
         Transicionar(ses[w], e, r),
         ses' = [ses EXCEPT ![w] = SesionLibre],
         \A m \in Liqs \ {ses[w].l} : CargosDe(m)' = CargosDe(m),
         liq[ses[w].l].estado \in {"confirmada", "publicada", "anulada"} =>
             e \in {"publicada", "anulada"},
         \A m \in Liqs : calculados[m] \subseteq calculados'[m],
         adelantadas \subseteq adelantadas'
  PROVE  /\ liq' \in [Liqs -> Liquidacion]
         /\ ses' \in [Sesiones -> Sesion]
         /\ \A m \in Liqs \ {ses[w].l} : liq'[m] = liq[m]
         /\ liq'[ses[w].l].estado = e
         /\ liq'[ses[w].l].reparto = r
         /\ liq'[ses[w].l].version = Siguiente(ses[w])
         /\ liq'[ses[w].l].periodo = liq[ses[w].l].periodo
         /\ liq'[ses[w].l].venc = liq[ses[w].l].venc
         /\ \A m \in Liqs \ {ses[w].l} : FilaOK(m)' /\ SinCargos(m)' /\ DeudaDe(m)'
         /\ SesionesOK'
<1> DEFINE l == ses[w].l
           x == [liq[l] EXCEPT !.estado = e, !.version = Siguiente(ses[w]),
                               !.reparto = r]
<1>1. l \in Liqs /\ liq[l] \in Liquidacion
  BY AlEscribir
<1>2. liq \in [Liqs -> Liquidacion] /\ ses \in [Sesiones -> Sesion]
  BY DEF IInv, TypeOK
<1>3. Siguiente(ses[w]) = liq[l].version + 1 /\ Siguiente(ses[w]) \in Nat
  BY <1>1 DEF Siguiente, Liquidacion
<1>4. /\ x \in Liquidacion
      /\ x.estado = e /\ x.version = Siguiente(ses[w]) /\ x.reparto = r
      /\ x.periodo = liq[l].periodo /\ x.venc = liq[l].venc
  BY <1>1, <1>3 DEF Liquidacion, Estados
<1>5. liq' = [liq EXCEPT ![l] = x]
  BY <1>1, <1>2 DEF Transicionar
<1> HIDE DEF x
<1>6. liq' \in [Liqs -> Liquidacion] /\ \A m \in Liqs : liq'[m] = IF m = l THEN x ELSE liq[m]
  BY <1>1, <1>2, <1>4, <1>5
<1>7. ses' \in [Sesiones -> Sesion]
  BY <1>2, LibreEnSesion
<1>8. SesionesOK'
  <2> SUFFICES ASSUME NEW v \in Sesiones, v # w, ses[v].paso # "libre"
               PROVE  SesionOK(ses[v])'
    BY <1>2, LibreEnSesion DEF SesionesOK, SesionOK, SesionLibre
  <2>1. SesionOK(ses[v]) /\ PedidoOK(ses[v]) /\ ses'[v] = ses[v]
    BY <1>2 DEF IInv, SesionesOK, SesionOK
  <2>2. CASE ses[v].l = l
    <3>1. PedidoOK(ses[v])'
      BY <1>1, <1>3, <1>4, <1>6, <2>1, <2>2 DEF PedidoOK, Liquidacion
    <3>2. LecturaOK(ses[v]) /\ ses[v] \in Sesion
      BY <1>2, <2>1 DEF SesionOK
    <3>3. /\ liq'[l].estado = e /\ liq'[l].venc = liq[l].venc
          /\ liq'[l].version = liq[l].version + 1
          /\ liq[l].version \in Nat /\ ses[v].exp \in Nat
      BY <1>1, <1>3, <1>4, <1>6, <3>2 DEF Liquidacion, Sesion
    <3>4. LecturaOK(ses[v])'
      BY <2>1, <2>2, <3>2, <3>3 DEF LecturaOK
    <3>5. ASSUME ses[v].paso = "escribir" PROVE PreparadoOK(ses[v])'
      <4>1. PreparadoOK(ses[v])
        BY <2>1, <3>5 DEF SesionOK
      <4>2. ASSUME ses[v].op = "confirmar"
            PROVE  /\ e = "calculada" => ses[v].reparto \in calculados'[l]
                   /\ ~ses[v].adelantado => ses[v].exp # liq'[l].version
        <5>1. ses[v].visto = "calculada" /\ liq[l].estado \notin {"borrador", "inexistente"}
          BY <2>1, <2>2, <3>2, <4>2 DEF LecturaOK, PedidoOK, Admite
        <5>2. e = "calculada" => liq[l].estado = "calculada"
          BY <1>1, <5>1 DEF Liquidacion, Estados
        <5>3. ~ses[v].adelantado => ses[v].exp <= liq[l].version
          BY <2>2, <3>2, <4>2 DEF LecturaOK
        <5> QED BY <1>1, <2>2, <3>3, <4>1, <4>2, <5>2, <5>3 DEF PreparadoOK
      <4>3. ASSUME ses[v].op = "anular", ses[v].visto = "confirmada"
            PROVE  e # "confirmada"
        BY <2>2, <3>2, <4>3 DEF LecturaOK
      <4> QED BY <2>1, <2>2, <3>3, <4>1, <4>2, <4>3 DEF PreparadoOK
    <3> QED BY <2>1, <3>1, <3>4, <3>5 DEF SesionOK
  <2>3. CASE ses[v].l # l
    <3>1. ses[v].l \in Liqs /\ liq'[ses[v].l] = liq[ses[v].l]
      BY <1>6, <2>1, <2>3 DEF PedidoOK
    <3>2. Pendientes(ses[v].l)' = Pendientes(ses[v].l)
      BY <2>1, <2>3, <3>1 DEF Pendientes, CargosDe
    <3>3. calculados[ses[v].l] \subseteq calculados'[ses[v].l]
      BY <3>1
    <3> QED BY <2>1, <3>1, <3>2, <3>3 DEF SesionOK, PedidoOK, LecturaOK, PreparadoOK
  <2> QED BY <2>2, <2>3
<1>9. ASSUME NEW m \in Liqs \ {l}
      PROVE  FilaOK(m)' /\ SinCargos(m)' /\ DeudaDe(m)'
  <2>1. liq'[m] = liq[m] /\ CargosDe(m)' = CargosDe(m)
    BY <1>6
  <2>2. calculados[m] \subseteq calculados'[m] /\ (m \in adelantadas => m \in adelantadas')
    OBVIOUS
  <2> QED
    BY <2>1, <2>2 DEF IInv, FilasOK, FilaOK, SinCargos, Posteada, DeudaDeUnCalculo, DeudaDe
<1> QED BY <1>1, <1>4, <1>6, <1>7, <1>8, <1>9

\* saveIdempotency keeps the type of the table of keys.
LEMMA GuardarOK ==
  ASSUME IInv, NEW w \in Sesiones, ses[w].paso = "escribir",
         ses[w].op \in Ambitos, Guardar(ses[w])
  PROVE  idem' \in [Ambitos -> [Claves -> [liq: Liqs, version: Nat] \cup {Ninguno}]]
<1>1. /\ ses[w].l \in Liqs /\ ses[w].clave \in Claves
      /\ liq[ses[w].l] \in Liquidacion
  BY AlEscribir DEF PedidoOK, Ambitos
<1>2. [liq |-> ses[w].l, version |-> Siguiente(ses[w])] \in [liq: Liqs, version: Nat]
  BY <1>1 DEF Siguiente, Liquidacion
<1> QED BY <1>1, <1>2 DEF Guardar, IInv, TypeOK

\* CalcularLiquidacion commits: a liquidacion without charges gets a snapshot.
LEMMA EscribirCalculoInv ==
  ASSUME IInv, NEW w \in Sesiones, EscribirCalculo(w)
  PROVE  IInv'
<1> SUFFICES ASSUME NEW s, s = ses[w], NEW l, l = s.l PROVE IInv'
  OBVIOUS
<1>1. /\ s.paso = "escribir" /\ s.op = "calcular" /\ Vigente(s)
      /\ Transicionar(s, "calculada", s.reparto) /\ Guardar(s) /\ Terminar(w)
      /\ calculados' = [calculados EXCEPT ![l] = @ \cup {s.reparto}]
      /\ UNCHANGED <<gastos, cargos, asientos, eventos, adelantadas>>
  BY DEF EscribirCalculo, Escribe
<1>2. /\ s.reparto \in Repartos /\ l \in Liqs /\ FilaOK(l) /\ SinCargos(l)
      /\ liq[l].estado \in {"borrador", "calculada"} /\ liq[l].version \in Nat
  BY <1>1, AlEscribir DEF LecturaOK, Admite, Vigente, Liquidacion
<1>3. ses' = [ses EXCEPT ![w] = SesionLibre]
  BY <1>1 DEF Terminar
<1>4. \A m \in Liqs : CargosDe(m)' = CargosDe(m)
  BY <1>1 DEF CargosDe
<1>10. /\ calculados' \in [Liqs -> SUBSET Repartos]
       /\ \A m \in Liqs : calculados[m] \subseteq calculados'[m]
       /\ s.reparto \in calculados'[l]
  BY <1>1, <1>2 DEF IInv, TypeOK
<1>5. /\ liq' \in [Liqs -> Liquidacion] /\ ses' \in [Sesiones -> Sesion]
      /\ \A m \in Liqs \ {l} : liq'[m] = liq[m]
      /\ liq'[l].estado = "calculada" /\ liq'[l].reparto = s.reparto
      /\ liq'[l].version = Siguiente(s)
      /\ liq'[l].periodo = liq[l].periodo /\ liq'[l].venc = liq[l].venc
      /\ \A m \in Liqs \ {l} : FilaOK(m)' /\ SinCargos(m)' /\ DeudaDe(m)'
      /\ SesionesOK'
  BY <1>1, <1>2, <1>3, <1>4, <1>10, Transicion
<1>6. TypeOK'
  <2>1. idem' \in [Ambitos -> [Claves -> [liq: Liqs, version: Nat] \cup {Ninguno}]]
    BY <1>1, GuardarOK DEF Ambitos
  <2> QED BY <1>1, <1>3, <1>5, <1>10, <2>1 DEF IInv, TypeOK
<1>7. FilasOK'
  <2>1. FilaOK(l)' /\ SinCargos(l)'
    BY <1>1, <1>2, <1>4, <1>5, <1>10 DEF FilaOK, SinCargos, Posteada, Siguiente
  <2> QED BY <1>5, <2>1 DEF FilasOK
<1>8. DeudaDeUnCalculo'
  BY <1>5 DEF DeudaDeUnCalculo, DeudaDe, Posteada
<1>9. CargosUnaVez'
  <2>1. \A c \in cargos : c.liq \in Liqs /\ c \in CargosDe(c.liq)
    BY DEF IInv, TypeOK, Cargo, CargosDe
  <2> QED BY <1>1, <1>2, <1>5, <2>1 DEF IInv, CargosUnaVez, Posteada, SinCargos
<1> QED BY <1>5, <1>6, <1>7, <1>8, <1>9 DEF IInv

\* PublicarLiquidacion commits: charges and snapshot stay as they were.
LEMMA EscribirEventoInv ==
  ASSUME IInv, NEW w \in Sesiones, EscribirEvento(w)
  PROVE  IInv'
<1> SUFFICES ASSUME NEW s, s = ses[w], NEW l, l = s.l PROVE IInv'
  OBVIOUS
<1>1. /\ s.paso = "escribir" /\ s.op = "publicar" /\ Vigente(s)
      /\ Transicionar(s, "publicada", liq[l].reparto) /\ Guardar(s) /\ Terminar(w)
      /\ eventos' = eventos \cup {[liq |-> l, en |-> Siguiente(s)]}
      /\ UNCHANGED <<gastos, cargos, asientos, calculados, adelantadas>>
  BY DEF EscribirEvento, Escribe, historia
<1>2. /\ l \in Liqs /\ FilaOK(l) /\ liq[l].estado = "confirmada"
      /\ liq[l].version \in Nat /\ liq[l].reparto \in Repartos
  BY <1>1, AlEscribir DEF LecturaOK, Admite, Vigente, Liquidacion, FilaOK, Posteada
<1>3. ses' = [ses EXCEPT ![w] = SesionLibre]
  BY <1>1 DEF Terminar
<1>4. \A m \in Liqs : CargosDe(m)' = CargosDe(m)
  BY <1>1 DEF CargosDe
<1>5. /\ liq' \in [Liqs -> Liquidacion] /\ ses' \in [Sesiones -> Sesion]
      /\ \A m \in Liqs \ {l} : liq'[m] = liq[m]
      /\ liq'[l].estado = "publicada" /\ liq'[l].reparto = liq[l].reparto
      /\ liq'[l].version = Siguiente(s)
      /\ liq'[l].periodo = liq[l].periodo /\ liq'[l].venc = liq[l].venc
      /\ \A m \in Liqs \ {l} : FilaOK(m)' /\ SinCargos(m)' /\ DeudaDe(m)'
      /\ SesionesOK'
  BY <1>1, <1>2, <1>3, <1>4, Transicion
<1>6. TypeOK'
  <2>1. idem' \in [Ambitos -> [Claves -> [liq: Liqs, version: Nat] \cup {Ninguno}]]
    BY <1>1, GuardarOK DEF Ambitos
  <2>2. [liq |-> l, en |-> Siguiente(s)] \in [liq: Liqs, en: Nat]
    BY <1>2 DEF Siguiente
  <2> QED BY <1>1, <1>3, <1>5, <2>1, <2>2 DEF IInv, TypeOK
<1>7. FilasOK'
  <2>1. FilaOK(l)' /\ SinCargos(l)'
    BY <1>1, <1>2, <1>5 DEF FilaOK, SinCargos, Posteada, Siguiente
  <2> QED BY <1>5, <2>1 DEF FilasOK
<1>8. DeudaDeUnCalculo'
  <2>1. PICK n \in 1..liq[l].version, r \in calculados[l] :
               /\ CargosDe(l) = Debida(l, r, liq[l].venc, n)
               /\ l \notin adelantadas => r = liq[l].reparto
    BY <1>2 DEF IInv, DeudaDeUnCalculo, DeudaDe, Posteada
  <2>2. n \in 1..liq'[l].version
    BY <1>2, <1>5 DEF Siguiente
  <2>4. DeudaDe(l)'
    BY <1>1, <1>2, <1>4, <1>5, <2>1, <2>2 DEF DeudaDe
  <2> QED BY <1>5, <2>4 DEF DeudaDeUnCalculo
<1>9. CargosUnaVez'
  BY <1>1, <1>2, <1>5 DEF IInv, TypeOK, Cargo, CargosUnaVez, Posteada
<1> QED BY <1>5, <1>6, <1>7, <1>8, <1>9 DEF IInv

\* Confirming posts one committed snapshot: the one that is frozen now, by the
\* check of the version, unless If-Match was ahead of what had been read.
LEMMA EscribirCargosInv ==
  ASSUME IInv, NEW w \in Sesiones, EscribirCargos(w)
  PROVE  IInv'
<1> SUFFICES ASSUME NEW s, s = ses[w], NEW l, l = s.l PROVE IInv'
  OBVIOUS
<1>1. /\ s.paso = "escribir" /\ s.op = "confirmar" /\ Vigente(s)
      /\ cargos' = cargos \cup CargosNuevos(s)
      /\ asientos' = asientos \cup {AsientoDe(c) : c \in CargosNuevos(s)}
      /\ Transicionar(s, "confirmada", liq[l].reparto)
      /\ Guardar(s) /\ Terminar(w)
      /\ adelantadas' = adelantadas \cup (IF s.adelantado THEN {l} ELSE {})
      /\ UNCHANGED <<gastos, eventos, calculados>>
  BY DEF EscribirCargos, Escribe
<1>2. /\ l \in Liqs /\ liq[l].estado = "calculada" /\ liq[l].version \in Nat
      /\ liq[l].reparto \in Repartos /\ s.reparto \in calculados[l]
      /\ s.reparto \in Repartos
      /\ ~s.adelantado => s.reparto = liq[l].reparto
      /\ s.venc = liq[l].venc /\ liq[l].venc \in Fechas
      /\ CargosDe(l) = {}
  <2>1. calculados \in [Liqs -> SUBSET Repartos]
    BY DEF IInv, TypeOK
  <2> QED
    BY <1>1, <2>1, AlEscribir
       DEF LecturaOK, PreparadoOK, Admite, Vigente, Liquidacion, FilaOK, SinCargos
<1>3. ses' = [ses EXCEPT ![w] = SesionLibre]
  BY <1>1 DEF Terminar
<1>4. Siguiente(s) = liq[l].version + 1 /\ Siguiente(s) \in Nat
  BY <1>2 DEF Siguiente
<1>5. /\ \A c \in CargosNuevos(s) :
           c \in Cargo /\ c.liq = l /\ c.saldo > 0 /\ AsientoDe(c) \in Asiento
      /\ \A c, d \in CargosNuevos(s) : c.uf = d.uf => c = d
  <2>1. \A u \in UFs : s.reparto[u] \in Nat
    BY <1>2, RepartosAssumption
  <2>2. \A c \in CargosNuevos(s) : c \in Cargo /\ c.liq = l /\ c.saldo > 0
    BY <1>2, <1>4, <2>1 DEF CargosNuevos, Debida, Cargo
  <2>3. \A c \in Cargo : AsientoDe(c) \in Asiento
    BY DEF Cargo, AsientoDe, Asiento
  <2>4. \A c, d \in CargosNuevos(s) : c.uf = d.uf => c = d
    BY DEF CargosNuevos, Debida
  <2> QED BY <2>2, <2>3, <2>4
<1>6. \A m \in Liqs \ {l} : CargosDe(m)' = CargosDe(m)
  BY <1>1, <1>5 DEF CargosDe
<1>7. /\ liq' \in [Liqs -> Liquidacion] /\ ses' \in [Sesiones -> Sesion]
      /\ \A m \in Liqs \ {l} : liq'[m] = liq[m]
      /\ liq'[l].estado = "confirmada" /\ liq'[l].reparto = liq[l].reparto
      /\ liq'[l].version = Siguiente(s)
      /\ liq'[l].periodo = liq[l].periodo /\ liq'[l].venc = liq[l].venc
      /\ \A m \in Liqs \ {l} : FilaOK(m)' /\ SinCargos(m)' /\ DeudaDe(m)'
      /\ SesionesOK'
  <2>1. adelantadas \subseteq adelantadas'
    BY <1>1
  <2> QED BY <1>1, <1>2, <1>3, <1>6, <2>1, Transicion
<1>8. TypeOK'
  <2>1. idem' \in [Ambitos -> [Claves -> [liq: Liqs, version: Nat] \cup {Ninguno}]]
    BY <1>1, GuardarOK DEF Ambitos
  <2>2. cargos' \subseteq Cargo /\ asientos' \subseteq Asiento
    BY <1>1, <1>5 DEF IInv, TypeOK
  <2>3. adelantadas' \subseteq Liqs
    BY <1>1, <1>2 DEF IInv, TypeOK
  <2> QED BY <1>1, <1>3, <1>7, <2>1, <2>2, <2>3 DEF IInv, TypeOK
<1>9. FilasOK'
  <2>1. FilaOK(l) /\ liq[l].estado = "calculada"
    BY <1>1, <1>2, AlEscribir
  <2>2. /\ liq[l].periodo \in Periodos /\ liq[l].venc \in Fechas
        /\ liq[l].version >= 1 /\ liq[l].reparto \in Repartos
        /\ liq[l].reparto \in calculados[l]
    BY <2>1 DEF FilaOK
  <2>3. FilaOK(l)'
    <3>1. liq'[l].version >= 1
      BY <1>2, <1>4, <1>7
    <3> QED BY <1>1, <1>7, <2>2, <3>1 DEF FilaOK
  <2>4. SinCargos(l)'
    BY <1>7 DEF SinCargos
  <2> QED BY <1>7, <2>3, <2>4 DEF FilasOK
<1>10. DeudaDeUnCalculo'
  <2> SUFFICES ASSUME NEW n, n = Siguiente(s) PROVE DeudaDeUnCalculo'
    OBVIOUS
  <2>1. CargosDe(l)' = CargosNuevos(s)
    BY <1>1, <1>2, <1>5 DEF CargosDe
  <2>2. CargosNuevos(s) = Debida(l, s.reparto, liq'[l].venc, n)
    BY <1>2, <1>7 DEF CargosNuevos
  <2>3. n \in 1..liq'[l].version
    BY <1>2, <1>4, <1>7
  <2>4. DeudaDe(l)'
    <3>1. l \notin adelantadas' => s.reparto = liq'[l].reparto
      BY <1>1, <1>2, <1>7
    <3>2. s.reparto \in calculados'[l]
      BY <1>1, <1>2
    <3> QED BY <2>1, <2>2, <2>3, <3>1, <3>2 DEF DeudaDe
  <2> QED BY <1>7, <2>4 DEF DeudaDeUnCalculo
<1>11. CargosUnaVez'
  <2>1. \A c \in cargos : c.liq \in Liqs /\ c.liq # l
    BY <1>2 DEF IInv, TypeOK, Cargo, CargosDe
  <2> QED BY <1>1, <1>5, <1>7, <2>1 DEF IInv, CargosUnaVez, Posteada
<1> QED BY <1>7, <1>8, <1>9, <1>10, <1>11 DEF IInv

\* Annulling touches the charges of its own liquidacion only.
LEMMA EscribirAnulacionInv ==
  ASSUME IInv, NEW w \in Sesiones, EscribirAnulacion(w)
  PROVE  IInv'
<1> SUFFICES ASSUME NEW s, s = ses[w], NEW l, l = s.l PROVE IInv'
  OBVIOUS
<1>1. /\ s.paso = "escribir" /\ s.op = "anular" /\ Vigente(s)
      /\ cargos' = (cargos \ s.revertir) \cup {SinSaldo(c) : c \in s.revertir}
      /\ asientos' = asientos \cup {ReversaDe(c, Siguiente(s)) : c \in s.revertir}
      /\ Transicionar(s, "anulada", liq[l].reparto) /\ Terminar(w)
      /\ UNCHANGED <<gastos, eventos, idem, calculados, adelantadas>>
  BY DEF EscribirAnulacion, Escribe, historia
<1>2. /\ l \in Liqs /\ FilaOK(l) /\ liq[l] \in Liquidacion
      /\ liq[l].estado # "inexistente"
      /\ s.revertir \subseteq CargosDe(l)
  BY <1>1, AlEscribir
     DEF PedidoOK, PreparadoOK, Vigente, Pendientes, CargosDe
<1>3. ses' = [ses EXCEPT ![w] = SesionLibre]
  BY <1>1 DEF Terminar
<1>4. Siguiente(s) = liq[l].version + 1 /\ Siguiente(s) \in Nat
  BY <1>2 DEF Siguiente, Liquidacion
<1>5. \A c \in s.revertir :
        /\ c \in cargos /\ c.liq = l
        /\ SinSaldo(c) \in Cargo /\ ReversaDe(c, Siguiente(s)) \in Asiento
        /\ SinSaldo(c).liq = l /\ SinSaldo(c).uf = c.uf
  BY <1>2, <1>4 DEF IInv, TypeOK, CargosDe, Cargo, SinSaldo, ReversaDe, Asiento
<1>6. \A m \in Liqs \ {l} : CargosDe(m)' = CargosDe(m)
  BY <1>1, <1>5 DEF CargosDe
<1>7. /\ liq' \in [Liqs -> Liquidacion] /\ ses' \in [Sesiones -> Sesion]
      /\ \A m \in Liqs \ {l} : liq'[m] = liq[m]
      /\ liq'[l].estado = "anulada" /\ liq'[l].reparto = liq[l].reparto
      /\ liq'[l].version = Siguiente(s)
      /\ liq'[l].periodo = liq[l].periodo /\ liq'[l].venc = liq[l].venc
      /\ \A m \in Liqs \ {l} : FilaOK(m)' /\ SinCargos(m)' /\ DeudaDe(m)'
      /\ SesionesOK'
  <2>1. liq[l].reparto \in Repartos \cup {Ninguno}
    BY <1>2 DEF Liquidacion
  <2> QED BY <1>1, <1>2, <1>3, <1>6, <2>1, Transicion
<1>8. TypeOK'
  <2>1. cargos' \subseteq Cargo /\ asientos' \subseteq Asiento
    BY <1>1, <1>5 DEF IInv, TypeOK
  <2> QED BY <1>1, <1>3, <1>7, <2>1 DEF IInv, TypeOK
<1>9. FilasOK'
  <2>1. FilaOK(l)' /\ SinCargos(l)'
    BY <1>2, <1>4, <1>7 DEF FilaOK, SinCargos, Posteada, Liquidacion
  <2> QED BY <1>7, <2>1 DEF FilasOK
<1>10. DeudaDeUnCalculo'
  BY <1>7 DEF DeudaDeUnCalculo, DeudaDe, Posteada
<1>11. CargosUnaVez'
  <2>1. \A c \in cargos' : \E b \in cargos :
          /\ b.liq = c.liq /\ b.uf = c.uf
          /\ c = IF b \in s.revertir THEN SinSaldo(b) ELSE b
    BY <1>1, <1>5
  <2>2. \A c, d \in cargos' : c.liq = d.liq /\ c.uf = d.uf => c = d
    BY <2>1 DEF IInv, CargosUnaVez
  <2>3. \A c \in cargos' : c.liq \in Liqs /\ (Posteada(c.liq)' \/ liq'[c.liq].estado = "anulada")
    BY <1>7, <2>1 DEF IInv, TypeOK, Cargo, CargosUnaVez, Posteada
  <2> QED BY <2>2, <2>3 DEF CargosUnaVez
<1> QED BY <1>7, <1>8, <1>9, <1>10, <1>11 DEF IInv

-----------------------------------------------------------------------------
(* Theorems *)

\* Every step of the program preserves the invariant: one lemma per operation.
LEMMA NextInv == IInv /\ [Next]_vars => IInv'
<1> SUFFICES ASSUME IInv, [Next]_vars PROVE IInv'
  OBVIOUS
<1>1. CASE UNCHANGED vars
  <2> USE <1>1 DEF vars, historia
  <2>1. TypeOK'
    BY DEF IInv, TypeOK
  <2>2. FilasOK'
    BY DEF IInv, FilasOK, FilaOK, SinCargos, CargosDe, Posteada
  <2>3. SesionesOK'
    BY DEF IInv, SesionesOK, SesionOK, PedidoOK, LecturaOK, PreparadoOK, Pendientes
  <2>4. DeudaDeUnCalculo' /\ CargosUnaVez'
    BY DEF IInv, DeudaDeUnCalculo, DeudaDe, CargosUnaVez, Posteada,
           CargosDe
  <2> QED BY <2>1, <2>2, <2>3, <2>4 DEF IInv
<1>2. CASE \E l \in Liqs, p \in Periodos, f \in Fechas : Crear(l, p, f)
  BY <1>2, CrearInv
<1>3. CASE \E l \in Liqs, f \in Fechas, v \in Versiones : Patch(l, v, f)
  BY <1>3, PatchInv
<1>4. CASE \E p \in Periodos, r \in Repartos \cup {Ninguno} : CambiarGastos(p, r)
  BY <1>4, CambiarGastosInv
<1>5. CASE \E w \in Sesiones, op \in Ops, l \in Liqs, k \in Claves \cup {Ninguno},
             v \in Versiones : Recibir(w, op, l, k, v)
  BY <1>5, RecibirInv
<1>6. CASE \E w \in Sesiones : Avanzar(w)
  <2> SUFFICES ASSUME NEW w \in Sesiones, Avanzar(w) PROVE IInv'
    BY <1>6
  <2>1. ASSUME Descartar(w) PROVE IInv'
    BY <2>1, SinEscribir DEF Descartar
  <2> QED
    BY <2>1, SellarInv, PrepararInv, EscribirCalculoInv, EscribirCargosInv,
       EscribirEventoInv, EscribirAnulacionInv DEF Avanzar
<1>7. CASE \E w \in Sesiones : Abortar(w)
  BY <1>7, SinEscribir DEF Abortar
<1> QED BY <1>1, <1>2, <1>3, <1>4, <1>5, <1>6, <1>7 DEF Next

\* IInv holds in every reachable state: it is what makes the version check of
\* TransitionLiquidacion enough.
THEOREM Invariante == Spec => []IInv
  BY InitInv, NextInv, PTL DEF Spec

\* Every table and every transaction keeps its shape through any interleaving of
\* requests, rollbacks and lost connections.
THEOREM Tipos == Spec => []TypeOK
<1>1. IInv => TypeOK
  BY DEF IInv
<1> QED BY <1>1, Invariante, PTL

\* However many requests run at once and whatever versions their If-Match name,
\* the debt of a confirmed or published liquidacion is one calculation that was
\* committed for it, whole and due at its vencimiento_1; and it is the one frozen
\* in the row when the confirmation did not name a version later than it had read:
\* then the check in TransitionLiquidacion is enough, though the snapshot and the
\* due date are read before it and without a lock.
THEOREM DeudaFiel == Spec => []DeudaDeUnCalculo
<1>1. IInv => DeudaDeUnCalculo
  BY DEF IInv
<1> QED BY <1>1, Invariante, PTL

\* No retry, second key or concurrent confirmation charges a unit twice for one
\* liquidacion, with no unique key on charges to forbid it.
THEOREM SinDobleCargo == Spec => []CargosUnaVez
<1>1. IInv => CargosUnaVez
  BY DEF IInv
<1> QED BY <1>1, Invariante, PTL
-----------------------------------------------------------------------------
(* Liquidaciones implements LibroDeDeuda, and what its ledger, its events    *)
(* and its keys say is true.  Seen from the book of debts a step does one of *)
(* five things, stated below by what it changes, or nothing (Quieto).  LInv  *)
(* is what the book needs to know beyond IInv.                               *)

\* A liquidacion that does not exist has no month.
NadaEnInexistentes ==
    \A l \in Liqs : liq[l].estado = "inexistente" =>
        liq[l].periodo = Ninguno

\* The partial unique index holds.
ActivaUnica ==
    \A l, m \in Liqs : Activa(l) /\ Activa(m) /\ liq[l].periodo = liq[m].periodo => l = m

\* A stored key means that its liquidacion went through the transition.
ClavesTrasTransicion ==
    \A k \in Claves :
        /\ idem["confirmar"][k] # Ninguno =>
             liq[idem["confirmar"][k].liq].estado \in {"confirmada", "publicada", "anulada"}
        /\ idem["publicar"][k] # Ninguno =>
             liq[idem["publicar"][k].liq].estado = "publicada"

LInv ==
    /\ NadaEnInexistentes /\ ActivaUnica /\ ClavesTrasTransicion
    /\ LibroCuadra /\ EventoSiiPublicada /\ ClaveDeUnEfecto

-----------------------------------------------------------------------------
(* What a step does to the book *)

\* Only l changes, by a transition.
SoloCambia(l) ==
    /\ liq[l].version \in Nat
    /\ liq'[l].version = liq[l].version + 1
    /\ liq'[l].periodo = liq[l].periodo
    /\ \A m \in Liqs \ {l} : liq'[m] = liq[m]

MismasClaves ==
    \A k \in Claves : /\ idem'["confirmar"][k] = idem["confirmar"][k]
                      /\ idem'["publicar"][k] = idem["publicar"][k]

Quieto ==
    /\ \A l \in Liqs : /\ liq'[l].estado = liq[l].estado
                       /\ liq'[l].version = liq[l].version
                       /\ liq'[l].periodo = liq[l].periodo
    /\ UNCHANGED <<cargos, asientos, eventos, idem, calculados>>

Nace(l, p) ==
    /\ liq[l].estado = "inexistente" /\ PeriodoLibre(p)
    /\ liq'[l].estado = "borrador" /\ liq'[l].periodo = p
    /\ \A m \in Liqs \ {l} : liq'[m] = liq[m]
    /\ UNCHANGED <<cargos, asientos, eventos, idem, calculados>>

SeCalcula(l, r) ==
    /\ SoloCambia(l)
    /\ liq[l].estado \in {"borrador", "calculada"}
    /\ liq'[l].estado = "calculada"
    /\ calculados' = [calculados EXCEPT ![l] = @ \cup {r}]
    /\ MismasClaves
    /\ UNCHANGED <<cargos, asientos, eventos>>

Nuevos(l, r) == Debida(l, r, liq[l].venc, liq[l].version + 1)

SeConfirma(l, k, r) ==
    /\ SoloCambia(l)
    /\ liq[l].estado = "calculada" /\ liq'[l].estado = "confirmada"
    /\ r \in calculados[l]
    /\ cargos' = cargos \cup Nuevos(l, r)
    /\ asientos' = asientos \cup {AsientoDe(c) : c \in Nuevos(l, r)}
    /\ idem'["confirmar"][k] = [liq |-> l, version |-> liq[l].version + 1]
    /\ \A j \in Claves : /\ j # k => idem'["confirmar"][j] = idem["confirmar"][j]
                         /\ idem'["publicar"][j] = idem["publicar"][j]
    /\ UNCHANGED <<eventos, calculados>>

SePublica(l, k) ==
    /\ SoloCambia(l)
    /\ liq[l].estado = "confirmada" /\ liq'[l].estado = "publicada"
    /\ eventos' = eventos \cup {[liq |-> l, en |-> liq[l].version + 1]}
    /\ idem'["publicar"][k] = [liq |-> l, version |-> liq[l].version + 1]
    /\ \A j \in Claves : /\ j # k => idem'["publicar"][j] = idem["publicar"][j]
                         /\ idem'["confirmar"][j] = idem["confirmar"][j]
    /\ UNCHANGED <<cargos, asientos, calculados>>

SeAnula(l) ==
    /\ SoloCambia(l)
    /\ liq[l].estado \in {"borrador", "calculada", "confirmada"}
    /\ liq'[l].estado = "anulada"
    /\ cargos' = (cargos \ Pendientes(l)) \cup {SinSaldo(c) : c \in Pendientes(l)}
    /\ asientos' = asientos \cup {ReversaDe(c, liq[l].version + 1) : c \in Pendientes(l)}
    /\ UNCHANGED <<eventos, idem, calculados>>

Paso ==
    \/ Quieto
    \/ \E l \in Liqs :
          \/ \E p \in Periodos : Nace(l, p)
          \/ \E r \in Repartos : SeCalcula(l, r)
          \/ SeAnula(l)
          \/ \E k \in Claves, r \in Repartos : SeConfirma(l, k, r)
          \/ \E k \in Claves : SePublica(l, k)

-----------------------------------------------------------------------------
(* Every step of the program is one of them *)

\* A transition that the version check let through changes one liquidacion.
LEMMA TransicionSolo ==
  ASSUME IInv, NEW w \in Sesiones, ses[w].paso = "escribir",
         NEW e, NEW r, Transicionar(ses[w], e, r)
  PROVE  /\ ses[w].l \in Liqs /\ SoloCambia(ses[w].l)
         /\ liq'[ses[w].l].estado = e
<1> DEFINE l == ses[w].l
<1>1. l \in Liqs /\ liq[l] \in Liquidacion /\ liq \in [Liqs -> Liquidacion]
  BY AlEscribir DEF PedidoOK, IInv, TypeOK
<1>2. /\ liq'[l].estado = e
      /\ liq'[l].version = liq[l].version + 1 /\ liq'[l].periodo = liq[l].periodo
      /\ \A m \in Liqs \ {l} : liq'[m] = liq[m]
  BY <1>1 DEF Transicionar, Siguiente, Liquidacion
<1> QED BY <1>1, <1>2 DEF SoloCambia, Liquidacion

\* saveIdempotency stores the answer under the key of the request only.
LEMMA GuardarSolo ==
  ASSUME IInv, NEW w \in Sesiones, ses[w].paso = "escribir",
         ses[w].op \in Ambitos, Guardar(ses[w])
  PROVE  /\ ses[w].clave \in Claves
         /\ idem'[ses[w].op][ses[w].clave]
              = [liq |-> ses[w].l, version |-> liq[ses[w].l].version + 1]
         /\ \A a \in Ambitos, k \in Claves :
               a # ses[w].op \/ k # ses[w].clave => idem'[a][k] = idem[a][k]
<1>1. ses[w].clave \in Claves
  BY AlEscribir DEF PedidoOK, Ambitos
<1>2. idem \in [Ambitos -> [Claves -> [liq: Liqs, version: Nat] \cup {Ninguno}]]
  BY DEF IInv, TypeOK
<1> QED BY <1>1, <1>2 DEF Guardar, Siguiente

\* CalcularLiquidacion gives the liquidacion another snapshot.
LEMMA CalculoEs ==
  ASSUME IInv, NEW w \in Sesiones, EscribirCalculo(w)
  PROVE  /\ ses[w].l \in Liqs /\ ses[w].reparto \in Repartos
         /\ SeCalcula(ses[w].l, ses[w].reparto)
<1>1. /\ ses[w].paso = "escribir" /\ ses[w].op = "calcular" /\ Vigente(ses[w])
      /\ Transicionar(ses[w], "calculada", ses[w].reparto) /\ Guardar(ses[w])
      /\ calculados' = [calculados EXCEPT ![ses[w].l] = @ \cup {ses[w].reparto}]
      /\ UNCHANGED <<cargos, asientos, eventos>>
  BY DEF EscribirCalculo, Escribe
<1>2. /\ ses[w].reparto \in Repartos
      /\ liq[ses[w].l].estado \in {"borrador", "calculada"}
  BY <1>1, AlEscribir DEF LecturaOK, Admite, Vigente
<1>3. MismasClaves
  BY <1>1, GuardarSolo DEF MismasClaves, Ambitos
<1>4. /\ ses[w].l \in Liqs /\ SoloCambia(ses[w].l)
      /\ liq'[ses[w].l].estado = "calculada"
  BY <1>1, TransicionSolo
<1>5. /\ calculados' = [calculados EXCEPT ![ses[w].l] = @ \cup {ses[w].reparto}]
      /\ UNCHANGED <<cargos, asientos, eventos>>
  BY <1>1
<1> QED BY <1>2, <1>3, <1>4, <1>5, Zenon DEF SeCalcula

\* ConfirmarLiquidacion posts one committed snapshot.
LEMMA CargosEs ==
  ASSUME IInv, NEW w \in Sesiones, EscribirCargos(w)
  PROVE  ses[w].l \in Liqs /\ ses[w].clave \in Claves
         /\ ses[w].reparto \in Repartos
         /\ SeConfirma(ses[w].l, ses[w].clave, ses[w].reparto)
<1>0. PICK s, l : s = ses[w] /\ l = s.l
  OBVIOUS
<1>1. /\ s.paso = "escribir" /\ s.op = "confirmar" /\ Vigente(s)
      /\ cargos' = cargos \cup CargosNuevos(s)
      /\ asientos' = asientos \cup {AsientoDe(c) : c \in CargosNuevos(s)}
      /\ Transicionar(s, "confirmada", liq[l].reparto) /\ Guardar(s)
      /\ UNCHANGED <<eventos, calculados>>
  BY <1>0 DEF EscribirCargos, Escribe
<1>2. /\ liq[l].estado = "calculada"
      /\ s.reparto \in calculados[l] /\ s.reparto \in Repartos /\ s.venc = liq[l].venc
  <2>1. calculados \in [Liqs -> SUBSET Repartos]
    BY DEF IInv, TypeOK
  <2> QED
    BY <1>0, <1>1, <2>1, AlEscribir DEF LecturaOK, PreparadoOK, Admite, Vigente
<1>3. CargosNuevos(s) = Nuevos(l, s.reparto)
  BY <1>0, <1>2 DEF CargosNuevos, Nuevos, Siguiente
<1>4. /\ s.clave \in Claves
      /\ idem'["confirmar"][s.clave] = [liq |-> l, version |-> liq[l].version + 1]
      /\ \A j \in Claves : /\ j # s.clave => idem'["confirmar"][j] = idem["confirmar"][j]
                           /\ idem'["publicar"][j] = idem["publicar"][j]
  <2>1. /\ ses[w].paso = "escribir" /\ ses[w].op = "confirmar" /\ "publicar" \in Ambitos
        /\ ses[w].op \in Ambitos /\ Guardar(ses[w])
    BY <1>0, <1>1 DEF Ambitos
  <2>2. /\ ses[w].clave \in Claves
        /\ idem'[ses[w].op][ses[w].clave]
             = [liq |-> ses[w].l, version |-> liq[ses[w].l].version + 1]
        /\ \A a \in Ambitos, j \in Claves :
              a # ses[w].op \/ j # ses[w].clave => idem'[a][j] = idem[a][j]
    BY <2>1, GuardarSolo
  <2> QED BY <1>0, <2>1, <2>2
<1>5. /\ l \in Liqs /\ SoloCambia(l)
      /\ liq'[l].estado = "confirmada"
  <2>1. ses[w].paso = "escribir" /\ Transicionar(ses[w], "confirmada", liq[l].reparto)
    BY <1>0, <1>1
  <2>2. /\ ses[w].l \in Liqs /\ SoloCambia(ses[w].l)
        /\ liq'[ses[w].l].estado = "confirmada"
    BY <2>1, TransicionSolo
  <2> QED BY <1>0, <2>2
<1>6. /\ cargos' = cargos \cup Nuevos(l, s.reparto)
      /\ asientos' = asientos \cup {AsientoDe(c) : c \in Nuevos(l, s.reparto)}
      /\ UNCHANGED <<eventos, calculados>>
  BY <1>0, <1>1, <1>3
<1>7. SeConfirma(l, s.clave, s.reparto)
  BY <1>2, <1>4, <1>5, <1>6, Zenon DEF SeConfirma
<1> QED BY <1>0, <1>2, <1>4, <1>5, <1>7

\* PublicarLiquidacion queues one event.
LEMMA EventoEs ==
  ASSUME IInv, NEW w \in Sesiones, EscribirEvento(w)
  PROVE  ses[w].l \in Liqs /\ ses[w].clave \in Claves
         /\ SePublica(ses[w].l, ses[w].clave)
<1>0. PICK s, l : s = ses[w] /\ l = s.l
  OBVIOUS
<1>1. /\ s.paso = "escribir" /\ s.op = "publicar" /\ Vigente(s)
      /\ eventos' = eventos \cup {[liq |-> l, en |-> liq[l].version + 1]}
      /\ Transicionar(s, "publicada", liq[l].reparto) /\ Guardar(s)
      /\ UNCHANGED <<cargos, asientos, calculados>>
  BY <1>0 DEF EscribirEvento, Escribe, Siguiente, historia
<1>2. liq[l].estado = "confirmada"
  BY <1>0, <1>1, AlEscribir DEF LecturaOK, Admite, Vigente
<1>3. /\ s.clave \in Claves
      /\ idem'["publicar"][s.clave] = [liq |-> l, version |-> liq[l].version + 1]
      /\ \A j \in Claves : /\ j # s.clave => idem'["publicar"][j] = idem["publicar"][j]
                           /\ idem'["confirmar"][j] = idem["confirmar"][j]
  <2>1. /\ ses[w].paso = "escribir" /\ ses[w].op = "publicar" /\ "confirmar" \in Ambitos
        /\ ses[w].op \in Ambitos /\ Guardar(ses[w])
    BY <1>0, <1>1 DEF Ambitos
  <2>2. /\ ses[w].clave \in Claves
        /\ idem'[ses[w].op][ses[w].clave]
             = [liq |-> ses[w].l, version |-> liq[ses[w].l].version + 1]
        /\ \A a \in Ambitos, j \in Claves :
              a # ses[w].op \/ j # ses[w].clave => idem'[a][j] = idem[a][j]
    BY <2>1, GuardarSolo
  <2> QED BY <1>0, <2>1, <2>2
<1>4. /\ l \in Liqs /\ SoloCambia(l)
      /\ liq'[l].estado = "publicada"
  <2>1. ses[w].paso = "escribir" /\ Transicionar(ses[w], "publicada", liq[l].reparto)
    BY <1>0, <1>1
  <2>2. /\ ses[w].l \in Liqs /\ SoloCambia(ses[w].l)
        /\ liq'[ses[w].l].estado = "publicada"
    BY <2>1, TransicionSolo
  <2> QED BY <1>0, <2>2
<1>5. /\ eventos' = eventos \cup {[liq |-> l, en |-> liq[l].version + 1]}
      /\ UNCHANGED <<cargos, asientos, calculados>>
  BY <1>0, <1>1
<1>6. SePublica(l, s.clave)
  BY <1>2, <1>3, <1>4, <1>5, Zenon DEF SePublica
<1> QED BY <1>0, <1>3, <1>4, <1>6

\* AnularLiquidacion reverses every charge that has a balance.
LEMMA AnulacionEs ==
  ASSUME IInv, NEW w \in Sesiones, EscribirAnulacion(w)
  PROVE  ses[w].l \in Liqs /\ SeAnula(ses[w].l)
<1>0. PICK s, l : s = ses[w] /\ l = s.l
  OBVIOUS
<1>1. /\ s.paso = "escribir" /\ s.op = "anular" /\ Vigente(s)
      /\ cargos' = (cargos \ s.revertir) \cup {SinSaldo(c) : c \in s.revertir}
      /\ asientos' = asientos \cup {ReversaDe(c, liq[l].version + 1) : c \in s.revertir}
      /\ Transicionar(s, "anulada", liq[l].reparto)
      /\ UNCHANGED <<eventos, idem, calculados>>
  BY <1>0 DEF EscribirAnulacion, Escribe, Siguiente, historia
<1>2. /\ liq[l].estado \in {"borrador", "calculada", "confirmada"}
      /\ s.revertir = IF liq[l].estado = "confirmada" THEN Pendientes(l) ELSE {}
      /\ SinCargos(l)
  BY <1>0, <1>1, AlEscribir DEF LecturaOK, PreparadoOK, Admite, Vigente
<1>3. s.revertir = Pendientes(l)
  BY <1>2 DEF SinCargos, CargosDe, Pendientes
<1>4. /\ l \in Liqs /\ SoloCambia(l)
      /\ liq'[l].estado = "anulada"
  <2>1. ses[w].paso = "escribir" /\ Transicionar(ses[w], "anulada", liq[l].reparto)
    BY <1>0, <1>1
  <2>2. /\ ses[w].l \in Liqs /\ SoloCambia(ses[w].l)
        /\ liq'[ses[w].l].estado = "anulada"
    BY <2>1, TransicionSolo
  <2> QED BY <1>0, <2>2
<1>5. /\ cargos' = (cargos \ Pendientes(l)) \cup {SinSaldo(c) : c \in Pendientes(l)}
      /\ asientos' = asientos \cup {ReversaDe(c, liq[l].version + 1) : c \in Pendientes(l)}
      /\ UNCHANGED <<eventos, idem, calculados>>
  BY <1>0, <1>1, <1>3
<1>6. SeAnula(l)
  BY <1>2, <1>4, <1>5, Zenon DEF SeAnula
<1> QED BY <1>0, <1>4, <1>6

\* Every step of the program is a step of Paso: one case per operation.
LEMMA NextEsPaso == IInv /\ [Next]_vars => Paso
<1> SUFFICES ASSUME IInv, [Next]_vars PROVE Paso
  OBVIOUS
<1> USE DEF Paso
<1>1. UNCHANGED <<liq, cargos, asientos, eventos, idem, historia>> => Quieto
  BY DEF Quieto, historia
<1>2. CASE UNCHANGED vars
  BY <1>1, <1>2 DEF vars
<1>3. ASSUME NEW l \in Liqs, NEW p \in Periodos, NEW f \in Fechas, Crear(l, p, f)
      PROVE  Nace(l, p)
  BY <1>3 DEF Crear, Nace, IInv, TypeOK, historia
<1>4. ASSUME NEW l \in Liqs, NEW f \in Fechas, NEW v, Patch(l, v, f)
      PROVE  Quieto
  <2>1. liq' = [liq EXCEPT ![l] = [liq[l] EXCEPT !.venc = liq'[l].venc]]
    BY <1>4 DEF Patch, IInv, TypeOK, Liquidacion
  <2> QED BY <1>4, <2>1 DEF Patch, Quieto, IInv, TypeOK, Liquidacion, historia
<1>5. ASSUME NEW p \in Periodos, NEW r, CambiarGastos(p, r)
      PROVE  Quieto
  BY <1>1, <1>5 DEF CambiarGastos
<1>6. ASSUME NEW w \in Sesiones, NEW op \in Ops, NEW l \in Liqs, NEW k, NEW v,
             Recibir(w, op, l, k, v)
      PROVE  Quieto
  BY <1>1, <1>6 DEF Recibir
<1>7. ASSUME NEW w \in Sesiones, Avanzar(w) \/ Abortar(w)
      PROVE  Paso
  <2>1. Sellar(w) \/ Preparar(w) \/ Descartar(w) \/ Abortar(w) => Quieto
    BY <1>1 DEF Sellar, Preparar, Descartar, Abortar
  <2> QED BY <1>7, <2>1, CalculoEs, CargosEs, EventoEs, AnulacionEs DEF Avanzar
<1> QED BY <1>2, <1>3, <1>4, <1>5, <1>6, <1>7 DEF Next

-----------------------------------------------------------------------------
(* Facts about charges *)

\* A charge of a liquidacion that was confirmed still has all its balance.
LEMMA ConSaldoSiPosteada ==
  ASSUME IInv, NEW c \in cargos, Posteada(c.liq)
  PROVE  c.saldo > 0
<1>1. c.liq \in Liqs /\ c \in CargosDe(c.liq)
  BY DEF IInv, TypeOK, Cargo, CargosDe
<1>2. PICK n \in 1..liq[c.liq].version, r \in calculados[c.liq] :
         CargosDe(c.liq) = Debida(c.liq, r, liq[c.liq].venc, n)
  BY <1>1 DEF IInv, DeudaDeUnCalculo, DeudaDe
<1> QED BY <1>1, <1>2 DEF Debida

\* What posting a snapshot adds: typed charges with a balance, one per unit.
LEMMA NuevosSon ==
  ASSUME IInv, NEW l \in Liqs, liq[l].estado = "calculada", liq[l].version \in Nat,
         NEW r \in calculados[l]
  PROVE  /\ r \in Repartos
         /\ \A c \in Nuevos(l, r) : /\ c \in Cargo /\ c.liq = l /\ c.uf \in UFs
                                 /\ c.lote = liq[l].version + 1
                                 /\ c.saldo > 0 /\ c.saldo = r[c.uf]
         /\ \A c, d \in Nuevos(l, r) : c.uf = d.uf => c = d
         /\ \A u \in UFs : r[u] > 0 => \E c \in Nuevos(l, r) : c.uf = u
         /\ \A c \in cargos : c.liq # l
         /\ \A u \in UFs : r[u] \in Nat
<1>1. FilaOK(l) /\ CargosDe(l) = {}
  BY DEF IInv, FilasOK, SinCargos
<1>2. r \in Repartos /\ liq[l].venc \in Fechas
  BY <1>1 DEF FilaOK, IInv, TypeOK
<1>3. \A u \in UFs : r[u] \in Nat
  BY <1>2, RepartosAssumption
<1>4. \A c \in Nuevos(l, r) : /\ c \in Cargo /\ c.liq = l /\ c.uf \in UFs
                           /\ c.lote = liq[l].version + 1
                           /\ c.saldo > 0 /\ c.saldo = r[c.uf]
  BY <1>2, <1>3 DEF Nuevos, Debida, Cargo
<1>5. \A c, d \in Nuevos(l, r) : c.uf = d.uf => c = d
  BY DEF Nuevos, Debida
<1>6. \A u \in UFs : r[u] > 0 => \E c \in Nuevos(l, r) : c.uf = u
  <2> SUFFICES ASSUME NEW u \in UFs, r[u] > 0
               PROVE  \E c \in Nuevos(l, r) : c.uf = u
    OBVIOUS
  <2> DEFINE c == [liq |-> l, uf |-> u, lote |-> liq[l].version + 1,
                   total |-> r[u], saldo |-> r[u],
                   venc |-> liq[l].venc]
  <2>1. c \in Nuevos(l, r)
    BY DEF Nuevos, Debida
  <2>2. c.uf = u
    OBVIOUS
  <2> HIDE DEF c
  <2> QED BY <2>1, <2>2
<1>7. \A c \in cargos : c.liq # l
  BY <1>1 DEF CargosDe
<1> QED BY <1>2, <1>3, <1>4, <1>5, <1>6, <1>7

\* A charge without its balance is the same charge.
LEMMA SinSaldoEs ==
  ASSUME NEW c \in Cargo, NEW v
  PROVE  /\ SinSaldo(c) \in Cargo /\ SinSaldo(c).saldo = 0
         /\ SinSaldo(c).liq = c.liq /\ SinSaldo(c).uf = c.uf
         /\ SinSaldo(c).lote = c.lote /\ SinSaldo(c).total = c.total
         /\ AsientoDe(SinSaldo(c)) = AsientoDe(c)
         /\ ReversaDe(SinSaldo(c), v) = ReversaDe(c, v)
  BY DEF Cargo, SinSaldo, AsientoDe, ReversaDe

-----------------------------------------------------------------------------
(* LInv is kept by each of them *)

\* The empty tables satisfy it.
LEMMA InitLInv == Init => LInv
<1> SUFFICES ASSUME Init PROVE LInv
  OBVIOUS
<1>1. NadaEnInexistentes /\ ActivaUnica
  BY DEF Init, Inexistente, NadaEnInexistentes, ActivaUnica, Activa
<1>2. \A k \in Claves : idem["confirmar"][k] = Ninguno /\ idem["publicar"][k] = Ninguno
  BY DEF Init, Ambitos
<1>3. ClavesTrasTransicion /\ ClaveDeUnEfecto
  BY <1>2 DEF ClavesTrasTransicion, ClaveDeUnEfecto
<1>4. LibroCuadra /\ EventoSiiPublicada
  BY DEF Init, Inexistente, LibroCuadra, EventoSiiPublicada
<1> QED BY <1>1, <1>3, <1>4 DEF LInv

\* The month, the estado and the keys, when l is the only liquidacion that changes.
LEMMA FilasLInv ==
  ASSUME IInv, LInv, NEW l \in Liqs, SoloCambia(l),
         liq[l].estado \notin {"inexistente", "anulada"}, liq'[l].estado # "inexistente"
  PROVE  NadaEnInexistentes' /\ ActivaUnica'
<1>1. \A m \in Liqs : /\ Activa(m)' => Activa(m)
                      /\ liq'[m].periodo = liq[m].periodo
  BY DEF SoloCambia, Activa
<1>2. ActivaUnica'
  BY <1>1 DEF LInv, ActivaUnica
<1>3. NadaEnInexistentes'
  BY DEF LInv, NadaEnInexistentes, SoloCambia
<1> QED BY <1>2, <1>3

\* A step outside the book.
LEMMA QuietoLInv ==
  ASSUME IInv, LInv, Quieto
  PROVE  LInv'
<1>1. NadaEnInexistentes' /\ ActivaUnica'
  BY DEF LInv, Quieto, NadaEnInexistentes, ActivaUnica, Activa
<1>2. idem \in [Ambitos -> [Claves -> [liq: Liqs, version: Nat] \cup {Ninguno}]]
  BY DEF IInv, TypeOK
<1>3. \A k \in Claves, a \in {"confirmar", "publicar"} :
         idem[a][k] # Ninguno => idem[a][k].liq \in Liqs
  BY <1>2 DEF Ambitos
<1>4. ClavesTrasTransicion'
  BY <1>3 DEF LInv, Quieto, ClavesTrasTransicion
<1>5. ClaveDeUnEfecto'
  BY DEF LInv, Quieto, ClaveDeUnEfecto, CargosDe
<1>6. EventoSiiPublicada'
  BY DEF LInv, Quieto, EventoSiiPublicada
<1>7. LibroCuadra'
  <2>1. \A c \in cargos : c.liq \in Liqs
    BY DEF IInv, TypeOK, Cargo
  <2> QED BY <2>1 DEF LInv, Quieto, LibroCuadra
<1> QED BY <1>1, <1>4, <1>5, <1>6, <1>7 DEF LInv

\* CreateLiquidacion: the month is free, so it stays unique.
LEMMA NaceLInv ==
  ASSUME IInv, LInv, NEW l \in Liqs, NEW p \in Periodos, Nace(l, p)
  PROVE  LInv'
<1>1. NadaEnInexistentes'
  BY DEF LInv, Nace, NadaEnInexistentes
<1>2. ActivaUnica'
  BY DEF LInv, Nace, ActivaUnica, Activa, PeriodoLibre
<1>3. \A k \in Claves, a \in {"confirmar", "publicar"} :
         idem[a][k] # Ninguno => idem[a][k].liq \in Liqs
  BY DEF IInv, TypeOK, Ambitos
<1>4. ClavesTrasTransicion'
  BY <1>3 DEF LInv, Nace, ClavesTrasTransicion
<1>5. ClaveDeUnEfecto'
  BY DEF LInv, Nace, ClaveDeUnEfecto, CargosDe
<1>6. EventoSiiPublicada'
  BY DEF LInv, Nace, EventoSiiPublicada
<1>7. LibroCuadra'
  <2>1. \A c \in cargos : c.liq \in Liqs /\ c.liq # l
    BY DEF IInv, TypeOK, Cargo, FilasOK, SinCargos, CargosDe, Nace
  <2> QED BY <2>1 DEF LInv, Nace, LibroCuadra
<1> QED BY <1>1, <1>2, <1>4, <1>5, <1>6, <1>7 DEF LInv

\* A calculation: the liquidacion has no charges, events or keys yet.
LEMMA SeCalculaLInv ==
  ASSUME IInv, LInv, NEW l \in Liqs, NEW r, SeCalcula(l, r)
  PROVE  LInv'
<1>1. NadaEnInexistentes' /\ ActivaUnica'
  BY FilasLInv DEF SeCalcula
<1>2. \A k \in Claves, a \in {"confirmar", "publicar"} :
         idem[a][k] # Ninguno => idem[a][k].liq \in Liqs
  BY DEF IInv, TypeOK, Ambitos
<1>3. ClavesTrasTransicion'
  BY <1>2 DEF LInv, SeCalcula, SoloCambia, MismasClaves, ClavesTrasTransicion
<1>4. ClaveDeUnEfecto'
  BY DEF LInv, SeCalcula, MismasClaves, ClaveDeUnEfecto, CargosDe
<1>5. EventoSiiPublicada'
  BY DEF LInv, SeCalcula, SoloCambia, EventoSiiPublicada
<1>6. LibroCuadra'
  <2>1. \A c \in cargos : c.liq \in Liqs /\ c.liq # l
    BY DEF IInv, TypeOK, Cargo, FilasOK, SinCargos, CargosDe, SeCalcula
  <2> QED BY <2>1 DEF LInv, SeCalcula, SoloCambia, LibroCuadra
<1> QED BY <1>1, <1>3, <1>4, <1>5, <1>6 DEF LInv

\* Two charges with one identifier are one charge.
LEMMA CargoUnico ==
  ASSUME IInv, NEW c \in cargos, NEW d \in cargos,
         c.liq = d.liq, c.uf = d.uf
  PROVE  c = d
  BY DEF IInv, CargosUnaVez

\* The entries of the charge c.
AsientosDe(c) == {a \in asientos : a.liq = c.liq /\ a.uf = c.uf /\ a.lote = c.lote}

\* The confirmation posts a debit for every new charge, and l had none before.
LEMMA SeConfirmaLInv ==
  ASSUME IInv, LInv, NEW l \in Liqs, NEW k \in Claves, NEW r, SeConfirma(l, k, r)
  PROVE  LInv'
<1> DEFINE v == liq[l].version + 1
<1>1. NadaEnInexistentes' /\ ActivaUnica'
  BY FilasLInv DEF SeConfirma
<1>2. /\ \A c \in Nuevos(l, r) : c \in Cargo /\ c.liq = l /\ c.lote = v /\ c.saldo > 0
      /\ \A c, d \in Nuevos(l, r) : c.uf = d.uf => c = d
      /\ \A c \in cargos : c.liq # l /\ c.liq \in Liqs
  BY NuevosSon DEF SeConfirma, SoloCambia, IInv, TypeOK, Cargo
<1>3. \A j \in Claves, a \in {"confirmar", "publicar"} :
         idem[a][j] # Ninguno => /\ idem[a][j].liq \in Liqs
                                 /\ idem[a][j].liq # l
  BY DEF IInv, TypeOK, Ambitos, LInv, ClavesTrasTransicion, SeConfirma
<1>4. ClavesTrasTransicion'
  BY <1>3 DEF LInv, SeConfirma, SoloCambia, ClavesTrasTransicion
<1>5. ClaveDeUnEfecto'
  <2> SUFFICES ASSUME NEW j \in Claves
               PROVE  /\ idem'["confirmar"][j] # Ninguno =>
                           /\ \A x \in cargos' : x.liq = idem'["confirmar"][j].liq
                                 => x.lote = idem'["confirmar"][j].version
                           /\ \A i \in Claves : idem'["confirmar"][i] # Ninguno
                                 /\ idem'["confirmar"][i].liq = idem'["confirmar"][j].liq => i = j
                      /\ idem'["publicar"][j] # Ninguno =>
                           /\ [liq |-> idem'["publicar"][j].liq,
                               en |-> idem'["publicar"][j].version] \in eventos
                           /\ \A i \in Claves : idem'["publicar"][i] # Ninguno
                                 /\ idem'["publicar"][i].liq = idem'["publicar"][j].liq => i = j
    BY DEF ClaveDeUnEfecto, CargosDe, SeConfirma
  <2>1. CASE j = k
    <3>1. idem'["confirmar"][k].liq = l /\ idem'["confirmar"][k].version = v
      BY DEF SeConfirma
    <3>2. \A x \in cargos' : x.liq = l => x.lote = v
      BY <1>2 DEF SeConfirma
    <3>3. \A i \in Claves : idem'["confirmar"][i] # Ninguno
             /\ idem'["confirmar"][i].liq = l => i = k
      BY <1>3 DEF SeConfirma
    <3> QED BY <2>1, <3>1, <3>2, <3>3 DEF LInv, ClaveDeUnEfecto, SeConfirma
  <2>2. CASE j # k
    <3>1. idem'["confirmar"][j] = idem["confirmar"][j]
          /\ idem'["publicar"][j] = idem["publicar"][j]
      BY <2>2 DEF SeConfirma
    <3>2. idem["confirmar"][j] # Ninguno =>
            /\ idem["confirmar"][j].liq # l
            /\ \A x \in cargos' : x.liq = idem["confirmar"][j].liq
                  => x.lote = idem["confirmar"][j].version
      BY <1>2, <1>3 DEF LInv, ClaveDeUnEfecto, CargosDe, SeConfirma
    <3> QED BY <3>1, <3>2 DEF LInv, ClaveDeUnEfecto, SeConfirma
  <2> QED BY <2>1, <2>2
<1>6. EventoSiiPublicada'
  BY DEF LInv, SeConfirma, SoloCambia, EventoSiiPublicada
<1>7. LibroCuadra'
  <2>1. \A a \in asientos : a.liq # l
    BY <1>2 DEF LInv, LibroCuadra
  <2>2. \A c \in cargos :
          /\ (c.saldo = 0) <=> (liq'[c.liq].estado = "anulada")
          /\ AsientosDe(c)' = {AsientoDe(c)} \cup
               (IF c.saldo = 0 THEN {ReversaDe(c, liq'[c.liq].version)} ELSE {})
    <3> SUFFICES ASSUME NEW c \in cargos
                 PROVE  /\ (c.saldo = 0) <=> (liq'[c.liq].estado = "anulada")
                        /\ AsientosDe(c)' = {AsientoDe(c)} \cup
                             (IF c.saldo = 0 THEN {ReversaDe(c, liq'[c.liq].version)} ELSE {})
      OBVIOUS
    <3>1. liq'[c.liq] = liq[c.liq]
      BY <1>2 DEF SeConfirma, SoloCambia
    <3>2. AsientosDe(c)' = AsientosDe(c)
      BY <1>2 DEF AsientosDe, SeConfirma, AsientoDe
    <3>3. /\ (c.saldo = 0) <=> (liq[c.liq].estado = "anulada")
          /\ AsientosDe(c) = {AsientoDe(c)} \cup
               (IF c.saldo = 0 THEN {ReversaDe(c, liq[c.liq].version)} ELSE {})
      BY DEF LInv, LibroCuadra, AsientosDe
    <3> QED BY <3>1, <3>2, <3>3
  <2>3. \A c \in Nuevos(l, r) :
          /\ c.saldo # 0 /\ liq'[c.liq].estado # "anulada"
          /\ AsientosDe(c)' = {AsientoDe(c)}
    <3> SUFFICES ASSUME NEW c \in Nuevos(l, r)
                 PROVE  AsientosDe(c)' = {AsientoDe(c)}
      BY <1>2 DEF SeConfirma, Cargo
    <3>1. \A d \in Nuevos(l, r) : AsientoDe(d).liq = d.liq /\ AsientoDe(d).uf = d.uf
                               /\ AsientoDe(d).lote = d.lote
      BY DEF AsientoDe
    <3>2. \A a \in asientos' : a.liq = c.liq /\ a.uf = c.uf => a = AsientoDe(c)
      BY <1>2, <2>1, <3>1 DEF SeConfirma
    <3>3. AsientoDe(c) \in asientos'
      BY DEF SeConfirma
    <3> QED BY <3>1, <3>2, <3>3 DEF AsientosDe
  <2>4. \A a \in asientos' : \E c \in cargos' :
          a.liq = c.liq /\ a.uf = c.uf /\ a.lote = c.lote
    <3>1. \A d \in Nuevos(l, r) : AsientoDe(d).liq = d.liq /\ AsientoDe(d).uf = d.uf
                               /\ AsientoDe(d).lote = d.lote
      BY DEF AsientoDe
    <3> QED BY <3>1 DEF LInv, LibroCuadra, SeConfirma
  <2>5. \A c \in cargos' : c \in cargos \/ c \in Nuevos(l, r)
    BY DEF SeConfirma
  <2> QED BY <2>2, <2>3, <2>4, <2>5 DEF LibroCuadra, AsientosDe
<1> QED BY <1>1, <1>4, <1>5, <1>6, <1>7 DEF LInv

\* ClaveDeUnEfecto, half by half.
ConfirmarDeUna ==
    \A k \in Claves : idem["confirmar"][k] # Ninguno =>
        /\ \A x \in cargos : x.liq = idem["confirmar"][k].liq
                            => x.lote = idem["confirmar"][k].version
        /\ \A j \in Claves : idem["confirmar"][j] # Ninguno
              /\ idem["confirmar"][j].liq = idem["confirmar"][k].liq => j = k
PublicarDeUna ==
    \A k \in Claves : idem["publicar"][k] # Ninguno =>
        /\ [liq |-> idem["publicar"][k].liq, en |-> idem["publicar"][k].version] \in eventos
        /\ \A j \in Claves : idem["publicar"][j] # Ninguno
              /\ idem["publicar"][j].liq = idem["publicar"][k].liq => j = k

\* The halves make the property, before and after a step.
LEMMA Mitades ==
  /\ ClaveDeUnEfecto <=> ConfirmarDeUna /\ PublicarDeUna
  /\ ClaveDeUnEfecto' <=> ConfirmarDeUna' /\ PublicarDeUna'
<1>1. ClaveDeUnEfecto <=> ConfirmarDeUna /\ PublicarDeUna
  <2>1. ClaveDeUnEfecto => ConfirmarDeUna
    BY DEF ClaveDeUnEfecto, ConfirmarDeUna, CargosDe
  <2>2. ClaveDeUnEfecto => PublicarDeUna
    BY DEF ClaveDeUnEfecto, PublicarDeUna
  <2>3. ConfirmarDeUna /\ PublicarDeUna => ClaveDeUnEfecto
    BY DEF ClaveDeUnEfecto, ConfirmarDeUna, PublicarDeUna, CargosDe
  <2> QED BY <2>1, <2>2, <2>3
<1>2. ClaveDeUnEfecto' <=> ConfirmarDeUna' /\ PublicarDeUna'
  <2>1. ClaveDeUnEfecto' => ConfirmarDeUna'
    BY DEF ClaveDeUnEfecto, ConfirmarDeUna, CargosDe
  <2>2. ClaveDeUnEfecto' => PublicarDeUna'
    BY DEF ClaveDeUnEfecto, PublicarDeUna
  <2>3. ConfirmarDeUna' /\ PublicarDeUna' => ClaveDeUnEfecto'
    BY DEF ClaveDeUnEfecto, ConfirmarDeUna, PublicarDeUna, CargosDe
  <2> QED BY <2>1, <2>2, <2>3
<1> QED BY <1>1, <1>2

\* The publication queues the only event of l.
LEMMA SePublicaLInv ==
  ASSUME IInv, LInv, NEW l \in Liqs, NEW k \in Claves, SePublica(l, k)
  PROVE  LInv'
<1>1. NadaEnInexistentes' /\ ActivaUnica'
  BY FilasLInv DEF SePublica
<1>2. \A j \in Claves, a \in {"confirmar", "publicar"} :
         idem[a][j] # Ninguno => idem[a][j].liq \in Liqs
  BY DEF IInv, TypeOK, Ambitos
<1>3. \A j \in Claves : idem["publicar"][j] # Ninguno => idem["publicar"][j].liq # l
  BY DEF LInv, ClavesTrasTransicion, SePublica
<1>4. ClavesTrasTransicion'
  BY <1>2 DEF LInv, SePublica, SoloCambia, ClavesTrasTransicion
<1>5. ClaveDeUnEfecto'
  <2>1. ConfirmarDeUna /\ PublicarDeUna
    BY Mitades DEF LInv
  <2>2. ConfirmarDeUna'
    <3>1. \A j \in Claves : idem'["confirmar"][j] = idem["confirmar"][j]
      BY DEF SePublica
    <3> QED BY <2>1, <3>1 DEF ConfirmarDeUna, SePublica
  <2> SUFFICES ASSUME NEW j \in Claves, idem'["publicar"][j] # Ninguno
               PROVE  /\ [liq |-> idem'["publicar"][j].liq,
                          en |-> idem'["publicar"][j].version] \in eventos'
                      /\ \A i \in Claves : idem'["publicar"][i] # Ninguno
                            /\ idem'["publicar"][i].liq = idem'["publicar"][j].liq => i = j
    BY <2>2, Mitades DEF PublicarDeUna
  <2>3. CASE j = k
    <3>1. idem'["publicar"][k].liq = l /\ idem'["publicar"][k].version = liq[l].version + 1
      BY DEF SePublica
    <3>2. \A i \in Claves : idem'["publicar"][i] # Ninguno
             /\ idem'["publicar"][i].liq = l => i = k
      BY <1>3 DEF SePublica
    <3>3. [liq |-> l, en |-> liq[l].version + 1] \in eventos'
      BY DEF SePublica
    <3> QED BY <2>3, <3>1, <3>2, <3>3
  <2>4. CASE j # k
    <3>1. idem'["publicar"][j] = idem["publicar"][j]
      BY <2>4 DEF SePublica
    <3>2. idem["publicar"][j] # Ninguno =>
            /\ idem["publicar"][j].liq # l
            /\ [liq |-> idem["publicar"][j].liq, en |-> idem["publicar"][j].version] \in eventos
            /\ \A i \in Claves : idem["publicar"][i] # Ninguno
                  /\ idem["publicar"][i].liq = idem["publicar"][j].liq => i = j
      BY <1>3, <2>1 DEF PublicarDeUna
    <3>3. idem'["publicar"][k].liq = l /\ eventos \subseteq eventos'
      BY DEF SePublica
    <3>4. \A i \in Claves : i # k => idem'["publicar"][i] = idem["publicar"][i]
      BY DEF SePublica
    <3> QED BY <3>1, <3>2, <3>3, <3>4
  <2> QED BY <2>3, <2>4
<1>6. EventoSiiPublicada'
  <2>1. {e \in eventos : e.liq = l} = {}
    BY DEF LInv, EventoSiiPublicada, SePublica
  <2>2. {e \in eventos' : e.liq = l} = {[liq |-> l, en |-> liq'[l].version]}
    BY <2>1 DEF SePublica, SoloCambia
  <2>3. \A m \in Liqs \ {l} : {e \in eventos' : e.liq = m} = {e \in eventos : e.liq = m}
    BY DEF SePublica
  <2> QED BY <2>2, <2>3 DEF LInv, EventoSiiPublicada, SePublica, SoloCambia
<1>7. LibroCuadra'
  <2>1. \A c \in cargos : c.liq \in Liqs
    BY DEF IInv, TypeOK, Cargo
  <2>2. \A c \in cargos : c.liq = l => c.saldo # 0
    BY DEF LInv, LibroCuadra, SePublica
  <2> QED BY <2>1, <2>2 DEF LInv, LibroCuadra, SePublica, SoloCambia
<1> QED BY <1>1, <1>4, <1>5, <1>6, <1>7 DEF LInv

\* The annulment leaves every charge of l without balance, with its credit.
LEMMA SeAnulaLInv ==
  ASSUME IInv, LInv, NEW l \in Liqs, SeAnula(l)
  PROVE  LInv'
<1> DEFINE v == liq[l].version + 1
           P == Pendientes(l)
<1>1. NadaEnInexistentes' /\ ActivaUnica'
  BY FilasLInv DEF SeAnula
<1>2. /\ \A c \in cargos : c \in Cargo /\ c.liq \in Liqs
      /\ \A c \in P : c \in cargos /\ c.liq = l
      /\ \A c \in cargos : c.liq = l => c \in P
  <2>1. \A c \in cargos : c \in Cargo /\ c.liq \in Liqs
    BY DEF IInv, TypeOK, Cargo
  <2>2. \A c \in cargos : c.liq = l => c.saldo # 0
    BY DEF LInv, LibroCuadra, SeAnula
  <2>3. \A c \in cargos : c.saldo \in Nat
    BY <2>1 DEF Cargo
  <2> QED BY <2>1, <2>2, <2>3 DEF Pendientes
<1>3. /\ \A c \in cargos' : \E b \in cargos :
            IF b.liq = l THEN c = SinSaldo(b) ELSE c = b
      /\ \A b \in cargos : (IF b.liq = l THEN SinSaldo(b) ELSE b) \in cargos'
  BY <1>2 DEF SeAnula
<1>4. \A j \in Claves, a \in {"confirmar", "publicar"} :
         idem[a][j] # Ninguno => idem[a][j].liq \in Liqs
  BY DEF IInv, TypeOK, Ambitos
<1>5. ClavesTrasTransicion'
  BY <1>4 DEF LInv, SeAnula, SoloCambia, ClavesTrasTransicion
<1>6. ClaveDeUnEfecto'
  <2>1. \A c \in cargos' : \E b \in cargos : c.liq = b.liq /\ c.lote = b.lote
    BY <1>2, <1>3, SinSaldoEs
  <2> QED BY <2>1 DEF LInv, ClaveDeUnEfecto, CargosDe, SeAnula
<1>7. EventoSiiPublicada'
  BY DEF LInv, SeAnula, SoloCambia, EventoSiiPublicada
<1>8. LibroCuadra'
  <2>1. \A c \in P : /\ ReversaDe(c, v).liq = c.liq /\ ReversaDe(c, v).uf = c.uf
                     /\ ReversaDe(c, v).lote = c.lote
    BY DEF ReversaDe
  <2>2. ASSUME NEW c \in cargos, c.liq # l
        PROVE  /\ (c.saldo = 0) <=> (liq'[c.liq].estado = "anulada")
               /\ AsientosDe(c)' = {AsientoDe(c)} \cup
                    (IF c.saldo = 0 THEN {ReversaDe(c, liq'[c.liq].version)} ELSE {})
    <3>1. liq'[c.liq] = liq[c.liq]
      BY <1>2, <2>2 DEF SeAnula, SoloCambia
    <3>2. AsientosDe(c)' = AsientosDe(c)
      BY <1>2, <2>1, <2>2 DEF AsientosDe, SeAnula
    <3>3. /\ (c.saldo = 0) <=> (liq[c.liq].estado = "anulada")
          /\ AsientosDe(c) = {AsientoDe(c)} \cup
               (IF c.saldo = 0 THEN {ReversaDe(c, liq[c.liq].version)} ELSE {})
      BY DEF LInv, LibroCuadra, AsientosDe
    <3> QED BY <3>1, <3>2, <3>3
  <2>3. ASSUME NEW b \in cargos, b.liq = l, NEW c, c = SinSaldo(b)
        PROVE  /\ c.saldo = 0 /\ liq'[c.liq].estado = "anulada"
               /\ AsientosDe(c)' = {AsientoDe(c), ReversaDe(c, liq'[c.liq].version)}
    <3>1. /\ c.saldo = 0 /\ c.liq = l /\ c.uf = b.uf /\ c.lote = b.lote
          /\ AsientoDe(c) = AsientoDe(b) /\ ReversaDe(c, v) = ReversaDe(b, v)
      BY <1>2, <2>3, SinSaldoEs
    <3>2. AsientosDe(b) = {AsientoDe(b)}
      <4>1. b.saldo # 0
        BY <2>3 DEF LInv, LibroCuadra, SeAnula
      <4> QED BY <4>1 DEF LInv, LibroCuadra, AsientosDe
    <3>3. \A d \in P : d.uf = b.uf => d = b
      BY <1>2, <2>3, CargoUnico
    <3>4. \A a \in asientos' : a.liq = b.liq /\ a.uf = b.uf /\ a.lote = b.lote =>
             a = AsientoDe(b) \/ a = ReversaDe(b, v)
      BY <2>1, <3>2, <3>3 DEF SeAnula, AsientosDe
    <3>5. AsientoDe(b) \in asientos' /\ ReversaDe(b, v) \in asientos'
      BY <1>2, <2>3, <3>2 DEF SeAnula, AsientosDe
    <3>6. /\ AsientoDe(b).liq = b.liq /\ AsientoDe(b).uf = b.uf /\ AsientoDe(b).lote = b.lote
          /\ ReversaDe(b, v).liq = b.liq /\ ReversaDe(b, v).uf = b.uf
          /\ ReversaDe(b, v).lote = b.lote
      BY DEF AsientoDe, ReversaDe
    <3>7. AsientosDe(c)' = {AsientoDe(b), ReversaDe(b, v)}
      BY <2>3, <3>1, <3>4, <3>5, <3>6 DEF AsientosDe
    <3>8. liq'[c.liq].version = v /\ liq'[c.liq].estado = "anulada"
      BY <3>1 DEF SeAnula, SoloCambia
    <3> QED BY <3>1, <3>7, <3>8
  <2>4. \A c \in cargos' :
          /\ (c.saldo = 0) <=> (liq'[c.liq].estado = "anulada")
          /\ AsientosDe(c)' = {AsientoDe(c)} \cup
               (IF c.saldo = 0 THEN {ReversaDe(c, liq'[c.liq].version)} ELSE {})
    <3> SUFFICES ASSUME NEW c \in cargos'
                 PROVE  /\ (c.saldo = 0) <=> (liq'[c.liq].estado = "anulada")
                        /\ AsientosDe(c)' = {AsientoDe(c)} \cup
                             (IF c.saldo = 0 THEN {ReversaDe(c, liq'[c.liq].version)} ELSE {})
      OBVIOUS
    <3>1. PICK b \in cargos : IF b.liq = l THEN c = SinSaldo(b) ELSE c = b
      BY <1>3
    <3>2. CASE b.liq = l
      BY <2>3, <3>1, <3>2
    <3>3. CASE b.liq # l
      BY <2>2, <3>1, <3>3
    <3> QED BY <3>2, <3>3
  <2>5. \A a \in asientos' : \E b \in cargos :
          a.liq = b.liq /\ a.uf = b.uf /\ a.lote = b.lote
    BY <1>2, <2>1 DEF LInv, LibroCuadra, SeAnula
  <2>6. \A b \in cargos : \E c \in cargos' :
          c.liq = b.liq /\ c.uf = b.uf /\ c.lote = b.lote
    BY <1>2, <1>3, SinSaldoEs
  <2>7. \A a \in asientos' : \E c \in cargos' :
          a.liq = c.liq /\ a.uf = c.uf /\ a.lote = c.lote
    BY <2>5, <2>6
  <2> QED BY <2>4, <2>7 DEF LibroCuadra, AsientosDe
<1> QED BY <1>1, <1>5, <1>6, <1>7, <1>8 DEF LInv

\* LInv is preserved by every step.
LEMMA PasoLInv == IInv /\ LInv /\ Paso => LInv'
  BY QuietoLInv, NaceLInv, SeCalculaLInv, SeConfirmaLInv, SePublicaLInv, SeAnulaLInv
     DEF Paso

\* LInv holds in every reachable state.
THEOREM InvarianteLibro == Spec => []LInv
  BY InitLInv, NextEsPaso, PasoLInv, Invariante, PTL DEF Spec

-----------------------------------------------------------------------------
(* Theorems: the properties *)

\* However requests interleave, retry and fail, a charge has one debit of its
\* total, and one credit exactly when its liquidacion was annulled, when it has no
\* balance left: the reversals of a lost race leave nothing behind.
THEOREM LibroSiempreCuadra == Spec => []LibroCuadra
<1>1. LInv => LibroCuadra
  BY DEF LInv
<1> QED BY <1>1, InvarianteLibro, PTL

\* The outbox announces exactly what was published, once, though the event is
\* inserted before the version check.
THEOREM UnEventoPorPublicacion == Spec => []EventoSiiPublicada
<1>1. LInv => EventoSiiPublicada
  BY DEF LInv
<1> QED BY <1>1, InvarianteLibro, PTL

\* A stored key stands for one effect, and no two keys for the same one.
THEOREM ClavesFieles == Spec => []ClaveDeUnEfecto
<1>1. LInv => ClaveDeUnEfecto
  BY DEF LInv
<1> QED BY <1>1, InvarianteLibro, PTL

\* No month is owed twice: the unique index frees a month only when the charges
\* of its liquidacion have been reversed.
THEOREM MesCobradoUnaVez == Spec => []PeriodoCobradoUnaVez
<1>1. IInv /\ LInv => PeriodoCobradoUnaVez
  <2> SUFFICES ASSUME IInv, LInv, NEW c \in cargos, NEW d \in cargos,
                      c.saldo > 0, d.saldo > 0,
                      liq[c.liq].periodo = liq[d.liq].periodo
               PROVE  c.liq = d.liq
    BY DEF PeriodoCobradoUnaVez
  <2>1. c \in Cargo /\ d \in Cargo
    BY DEF IInv, TypeOK
  <2>2. liq[c.liq].estado # "anulada" /\ liq[d.liq].estado # "anulada"
    BY <2>1 DEF LInv, LibroCuadra, Cargo
  <2>3. Posteada(c.liq) /\ Posteada(d.liq)
    BY <2>2 DEF IInv, CargosUnaVez
  <2> QED BY <2>1, <2>2, <2>3 DEF LInv, ActivaUnica, Activa, Posteada, Cargo
<1> QED BY <1>1, Invariante, InvarianteLibro, PTL

-----------------------------------------------------------------------------
(* Theorem: the refinement *)

\* The empty tables are the empty book.
LEMMA InitLibro == Init => Libro!Init
<1> SUFFICES ASSUME Init PROVE Libro!Init
  OBVIOUS
<1>1. \A l \in Liqs : Fase(liq[l].estado) = "nada"
                      /\ liq[l].periodo = Ninguno
  BY DEF Init, Inexistente, Fase
<1>2. cargos = {} /\ eventos = {} /\ calculados = [l \in Liqs |-> {}]
  BY DEF Init
<1> QED BY <1>1, <1>2 DEF Libro!Init

\* What the book reads of an estado.
LEMMA FaseEs ==
  /\ Fase("inexistente") = "nada"
  /\ Fase("borrador") = "abierta" /\ Fase("calculada") = "abierta"
  /\ Fase("confirmada") = "exigible" /\ Fase("publicada") = "anunciada"
  /\ Fase("anulada") = "anulada"
  BY DEF Fase

\* The rows of the book when l is the only liquidacion that changes.
LEMMA FilasLibro ==
  ASSUME NEW l \in Liqs, \A m \in Liqs \ {l} : liq'[m] = liq[m]
  PROVE  /\ [m \in Liqs |-> Fase(liq'[m].estado)]
              = [[m \in Liqs |-> Fase(liq[m].estado)] EXCEPT ![l] = Fase(liq'[l].estado)]
         /\ [m \in Liqs |-> liq'[m].periodo]
              = [[m \in Liqs |-> liq[m].periodo] EXCEPT ![l] = liq'[l].periodo]
         /\ liq'[l].periodo = liq[l].periodo
              => [m \in Liqs |-> liq'[m].periodo] = [m \in Liqs |-> liq[m].periodo]
  OBVIOUS

\* The debts and the announcements of the book.
Deudas == {Deuda(c) : c \in {x \in cargos : x.saldo > 0}}
Anuncios == {[liq |-> e.liq, num |-> e.en] : e \in eventos}

\* A step that the book does not see.
LEMMA QuietoLibro ==
  ASSUME Quieto
  PROVE  UNCHANGED Libro!vars
<1>1. /\ [l \in Liqs |-> Fase(liq'[l].estado)] = [l \in Liqs |-> Fase(liq[l].estado)]
      /\ [l \in Liqs |-> liq'[l].periodo] = [l \in Liqs |-> liq[l].periodo]
  BY DEF Quieto
<1>2. cargos' = cargos /\ eventos' = eventos /\ calculados' = calculados
  BY DEF Quieto
<1> QED BY <1>1, <1>2 DEF Libro!vars, Fase, Deuda

\* CreateLiquidacion opens the month.
LEMMA NaceLibro ==
  ASSUME LInv, NEW l \in Liqs, NEW p \in Periodos, Nace(l, p)
  PROVE  Libro!Abrir(l, p)
<1>1. Fase(liq[l].estado) = "nada" /\ Fase(liq'[l].estado) = "abierta"
  BY FaseEs DEF Nace
<1>2. \A m \in Liqs : liq[m].periodo = p => Fase(liq[m].estado) = "anulada"
  <2> SUFFICES ASSUME NEW m \in Liqs, liq[m].periodo = p
               PROVE  Fase(liq[m].estado) = "anulada"
    OBVIOUS
  <2>1. liq[m].estado \in {"inexistente", "anulada"}
    BY DEF Nace, PeriodoLibre, Activa
  <2>2. liq[m].estado # "inexistente"
    BY NingunoAssumption DEF LInv, NadaEnInexistentes
  <2> QED BY <2>1, <2>2, FaseEs
<1>3. liq'[l].periodo = p /\ calculados' = calculados
  BY DEF Nace
<1>4. cargos' = cargos /\ eventos' = eventos /\ \A m \in Liqs \ {l} : liq'[m] = liq[m]
  BY DEF Nace
<1>5. /\ [m \in Liqs |-> Fase(liq'[m].estado)]
           = [[m \in Liqs |-> Fase(liq[m].estado)] EXCEPT ![l] = "abierta"]
      /\ [m \in Liqs |-> liq'[m].periodo]
           = [[m \in Liqs |-> liq[m].periodo] EXCEPT ![l] = p]
  BY <1>1, <1>3, <1>4, FilasLibro
<1> QED BY <1>1, <1>2, <1>3, <1>4, <1>5 DEF Libro!Abrir, Deuda

\* A calculation is a proposal.
LEMMA SeCalculaLibro ==
  ASSUME NEW l \in Liqs, NEW r, SeCalcula(l, r)
  PROVE  Libro!Proponer(l, r)
<1>1. Fase(liq[l].estado) = "abierta" /\ Fase(liq'[l].estado) = Fase(liq[l].estado)
  BY FaseEs DEF SeCalcula
<1>2. /\ calculados' = [calculados EXCEPT ![l] = @ \cup {r}]
      /\ liq'[l].periodo = liq[l].periodo
      /\ cargos' = cargos /\ eventos' = eventos /\ \A m \in Liqs \ {l} : liq'[m] = liq[m]
  BY DEF SeCalcula, SoloCambia
<1>3. /\ [m \in Liqs |-> Fase(liq'[m].estado)] = [m \in Liqs |-> Fase(liq[m].estado)]
      /\ [m \in Liqs |-> liq'[m].periodo] = [m \in Liqs |-> liq[m].periodo]
  BY <1>1, <1>2, FilasLibro
<1> QED BY <1>1, <1>2, <1>3 DEF Libro!Proponer, Deuda

\* A confirmation makes one proposal exigible, for its amounts.
LEMMA SeConfirmaLibro ==
  ASSUME IInv, NEW l \in Liqs, NEW k \in Claves, NEW r, SeConfirma(l, k, r)
  PROVE  Libro!Exigir(l)
<1>1. Fase(liq[l].estado) = "abierta" /\ Fase(liq'[l].estado) = "exigible"
  BY FaseEs DEF SeConfirma
<1>2. /\ liq'[l].periodo = liq[l].periodo /\ calculados' = calculados
      /\ r \in calculados[l]
      /\ cargos' = cargos \cup Nuevos(l, r) /\ eventos' = eventos
      /\ \A m \in Liqs \ {l} : liq'[m] = liq[m]
      /\ liq[l].estado = "calculada" /\ liq[l].version \in Nat
  BY DEF SeConfirma, SoloCambia
<1>3. /\ [m \in Liqs |-> Fase(liq'[m].estado)]
           = [[m \in Liqs |-> Fase(liq[m].estado)] EXCEPT ![l] = "exigible"]
      /\ [m \in Liqs |-> liq'[m].periodo] = [m \in Liqs |-> liq[m].periodo]
  BY <1>1, <1>2, FilasLibro
<1>4. Deudas \subseteq Deudas'
  BY <1>2 DEF Deudas, Deuda
<1>5. \A d \in Deudas' \ Deudas : \E c \in Nuevos(l, r) : d = Deuda(c)
  BY <1>2 DEF Deudas, Deuda
<1>6. \A c \in Nuevos(l, r) : Deuda(c) \in Deudas' \ Deudas
  <2> SUFFICES ASSUME NEW c \in Nuevos(l, r) PROVE Deuda(c) \in Deudas' \ Deudas
    OBVIOUS
  <2>1. c.liq = l /\ c.saldo > 0 /\ c \in cargos'
    BY <1>2, NuevosSon
  <2>2. \A x \in cargos : x.liq # l
    BY <1>2, NuevosSon
  <2> QED BY <2>1, <2>2 DEF Deudas, Deuda
<1>8. \A d \in Deudas' \ Deudas :
         d.liq = l /\ d.monto = r[d.uf] /\ d.monto > 0
  BY <1>2, <1>5, NuevosSon DEF Deuda
<1>9. \A u \in UFs : r[u] > 0 => \E d \in Deudas' \ Deudas : d.uf = u
  <2>1. \A c \in Nuevos(l, r) : Deuda(c).uf = c.uf
    BY DEF Deuda
  <2> QED BY <1>2, <1>6, <2>1, NuevosSon
<1>10. \A d, e \in Deudas' \ Deudas : d.uf = e.uf => d = e
  <2>1. \A c \in Nuevos(l, r) : Deuda(c).uf = c.uf
    BY DEF Deuda
  <2>2. \A c, d \in Nuevos(l, r) : c.uf = d.uf => c = d
    BY <1>2, NuevosSon
  <2> QED BY <1>5, <2>1, <2>2
<1>11. Libro!Cobra(l, r, Deudas' \ Deudas)
  BY <1>8, <1>9, <1>10 DEF Libro!Cobra
<1> QED BY <1>1, <1>2, <1>3, <1>4, <1>11 DEF Libro!Exigir, Deudas, Deuda

\* A publication is the only announcement of its liquidacion.
LEMMA SePublicaLibro ==
  ASSUME LInv, NEW l \in Liqs, NEW k \in Claves, SePublica(l, k)
  PROVE  Libro!Anunciar(l)
<1> DEFINE a == [liq |-> l, num |-> liq[l].version + 1]
<1>1. Fase(liq[l].estado) = "exigible" /\ Fase(liq'[l].estado) = "anunciada"
  BY FaseEs DEF SePublica
<1>2. /\ liq'[l].periodo = liq[l].periodo /\ calculados' = calculados
      /\ cargos' = cargos
      /\ eventos' = eventos \cup {[liq |-> l, en |-> liq[l].version + 1]}
      /\ \A m \in Liqs \ {l} : liq'[m] = liq[m]
  BY DEF SePublica, SoloCambia
<1>3. /\ [m \in Liqs |-> Fase(liq'[m].estado)]
           = [[m \in Liqs |-> Fase(liq[m].estado)] EXCEPT ![l] = "anunciada"]
      /\ [m \in Liqs |-> liq'[m].periodo] = [m \in Liqs |-> liq[m].periodo]
  BY <1>1, <1>2, FilasLibro
<1>4. \A e \in eventos : e.liq # l
  <2>1. {e \in eventos : e.liq = l} = {}
    BY DEF LInv, EventoSiiPublicada, SePublica
  <2> QED BY <2>1
<1>5. \A e : [liq |-> l, en |-> liq[l].version + 1] = e =>
             e.liq = l /\ e.en = liq[l].version + 1
  OBVIOUS
<1>6. Anuncios' = {[liq |-> e.liq, num |-> e.en] : e \in eventos'}
  BY DEF Anuncios
<1>7. a \in Anuncios'
  BY <1>2, <1>5, <1>6
<1>8. a \notin Anuncios /\ a.liq = l
  BY <1>4 DEF Anuncios
<1>9. Anuncios' = Anuncios \cup {a}
  <2>1. \A x \in Anuncios' : x \in Anuncios \/ x = a
    BY <1>2, <1>5, <1>6 DEF Anuncios
  <2>2. Anuncios \subseteq Anuncios'
    BY <1>2, <1>6 DEF Anuncios
  <2> QED BY <1>7, <2>1, <2>2
<1> QED BY <1>1, <1>2, <1>3, <1>7, <1>8, <1>9 DEF Libro!Anunciar, Anuncios, Deuda

\* An annulment cancels every debt of its liquidacion and no other.
LEMMA SeAnulaLibro ==
  ASSUME IInv, NEW l \in Liqs, SeAnula(l)
  PROVE  Libro!Cancelar(l)
<1>1. Fase(liq[l].estado) \in {"abierta", "exigible"} /\ Fase(liq'[l].estado) = "anulada"
  BY FaseEs DEF SeAnula
<1>2. /\ liq'[l].periodo = liq[l].periodo /\ calculados' = calculados
      /\ cargos' = (cargos \ Pendientes(l)) \cup {SinSaldo(c) : c \in Pendientes(l)}
      /\ eventos' = eventos /\ \A m \in Liqs \ {l} : liq'[m] = liq[m]
  BY DEF SeAnula, SoloCambia
<1>3. /\ [m \in Liqs |-> Fase(liq'[m].estado)]
           = [[m \in Liqs |-> Fase(liq[m].estado)] EXCEPT ![l] = "anulada"]
      /\ [m \in Liqs |-> liq'[m].periodo] = [m \in Liqs |-> liq[m].periodo]
  BY <1>1, <1>2, FilasLibro
<1>4. \A c \in Pendientes(l) : SinSaldo(c).saldo = 0
  BY SinSaldoEs DEF IInv, TypeOK, Pendientes
<1>5. \A c : (c \in cargos' /\ c.saldo > 0) <=> (c \in cargos /\ c.saldo > 0 /\ c.liq # l)
  BY <1>2, <1>4 DEF Pendientes
<1>6. \A c : Deuda(c).liq = c.liq
  BY DEF Deuda
<1>7. Deudas' = {d \in Deudas : d.liq # l}
  <2>1. \A d \in Deudas' : d \in Deudas /\ d.liq # l
    BY <1>5, <1>6 DEF Deudas, Deuda
  <2>2. \A d \in Deudas : d.liq # l => d \in Deudas'
    BY <1>5, <1>6 DEF Deudas, Deuda
  <2> QED BY <2>1, <2>2
<1> QED BY <1>1, <1>2, <1>3, <1>7 DEF Libro!Cancelar, Deudas, Deuda

\* Every step is a step of the book, or one that it does not see.
LEMMA PasoLibro == IInv /\ LInv /\ Paso => [Libro!Next]_(Libro!vars)
<1> SUFFICES ASSUME IInv, LInv, Paso PROVE Libro!Next \/ UNCHANGED Libro!vars
  OBVIOUS
<1>1. CASE Quieto
  BY <1>1, QuietoLibro
<1>2. ASSUME NEW l \in Liqs,
             \/ \E p \in Periodos : Nace(l, p)
             \/ \E r \in Repartos : SeCalcula(l, r)
             \/ SeAnula(l)
             \/ \E k \in Claves, r \in Repartos : SeConfirma(l, k, r)
             \/ \E k \in Claves : SePublica(l, k)
      PROVE  Libro!Next
  BY <1>2, NaceLibro, SeCalculaLibro, SeAnulaLibro, SeConfirmaLibro, SePublicaLibro
     DEF Libro!Next
<1> QED BY <1>1, <1>2 DEF Paso

\* The transactions, with their interleavings, retries and rollbacks, do what
\* LibroDeDeuda promises, whatever versions their If-Match name: in particular the
\* charges posted are one committed calculation, whole, and nothing that was
\* announced is cancelled.
THEOREM Refinamiento == Spec => RefinaLibro
<1>1. IInv /\ LInv /\ [Next]_vars => [Libro!Next]_(Libro!vars)
  BY NextEsPaso, PasoLibro
<1> QED BY <1>1, InitLibro, Invariante, InvarianteLibro, PTL DEF Spec, RefinaLibro, Libro!Spec

\* What the book has of liquidacion l.
DeudasLibro(l) == {d \in Deudas : d.liq = l}
AnunciosLibro(l) == {a \in Anuncios : a.liq = l}

\* A step of the book leaves alone what it has of a liquidacion that was announced:
\* the other operations are of earlier phases.
LEMMA AnunciadaQueda ==
  ASSUME Libro!Next, NEW l \in Liqs, Fase(liq[l].estado) = "anunciada"
  PROVE  /\ Fase(liq'[l].estado) = "anunciada"
         /\ DeudasLibro(l)' = DeudasLibro(l) /\ AnunciosLibro(l)' = AnunciosLibro(l)
<1>1. PICK m \in Liqs :
         \/ \E p \in Periodos : Libro!Abrir(m, p)
         \/ \E r \in Repartos : Libro!Proponer(m, r)
         \/ Libro!Exigir(m) \/ Libro!Anunciar(m) \/ Libro!Cancelar(m)
  BY DEF Libro!Next
<1>2. m # l
  BY <1>1 DEF Libro!Abrir, Libro!Proponer, Libro!Exigir, Libro!Anunciar, Libro!Cancelar
<1>3. Fase(liq'[l].estado) = Fase(liq[l].estado)
  <2>1. \/ [x \in Liqs |-> Fase(liq'[x].estado)] = [x \in Liqs |-> Fase(liq[x].estado)]
        \/ \E e : [x \in Liqs |-> Fase(liq'[x].estado)]
                    = [[x \in Liqs |-> Fase(liq[x].estado)] EXCEPT ![m] = e]
    BY <1>1 DEF Libro!Abrir, Libro!Proponer, Libro!Exigir, Libro!Anunciar, Libro!Cancelar
  <2>2. PICK f, g : /\ f = [x \in Liqs |-> Fase(liq[x].estado)]
                    /\ g = [x \in Liqs |-> Fase(liq'[x].estado)]
    OBVIOUS
  <2>3. f[l] = Fase(liq[l].estado) /\ g[l] = Fase(liq'[l].estado) /\ DOMAIN f = Liqs
    BY <2>2
  <2>4. g = f \/ \E e : g = [f EXCEPT ![m] = e]
    BY <2>1, <2>2
  <2> QED BY <1>2, <2>3, <2>4
<1>4. /\ \A d \in Deudas' : d \in Deudas \/ d.liq = m
      /\ \A d \in Deudas : d \in Deudas' \/ d.liq = m
  <2>1. CASE Libro!Exigir(m)
    <3>1. PICK r : Deudas \subseteq Deudas' /\ Libro!Cobra(m, r, Deudas' \ Deudas)
      BY <2>1 DEF Libro!Exigir, Deudas
    <3>2. \A d \in Deudas' \ Deudas : d.liq = m
      BY <3>1 DEF Libro!Cobra
    <3> QED BY <3>1, <3>2
  <2>2. CASE Libro!Cancelar(m)
    <3>1. Deudas' = {d \in Deudas : d.liq # m}
      BY <2>2 DEF Libro!Cancelar, Deudas
    <3> QED BY <3>1
  <2>3. CASE \/ \E p \in Periodos : Libro!Abrir(m, p)
             \/ \E r \in Repartos : Libro!Proponer(m, r)
             \/ Libro!Anunciar(m)
    <3>1. Deudas' = Deudas
      BY <2>3 DEF Libro!Abrir, Libro!Proponer, Libro!Anunciar, Deudas
    <3> QED BY <3>1
  <2> QED BY <1>1, <2>1, <2>2, <2>3
<1>5. /\ \A a \in Anuncios' : a \in Anuncios \/ a.liq = m
      /\ Anuncios \subseteq Anuncios'
  BY <1>1 DEF Libro!Abrir, Libro!Proponer, Libro!Exigir, Libro!Anunciar, Libro!Cancelar,
              Anuncios
<1>6. DeudasLibro(l)' = DeudasLibro(l)
  BY <1>2, <1>4 DEF DeudasLibro
<1>7. AnunciosLibro(l)' = AnunciosLibro(l)
  BY <1>2, <1>5 DEF AnunciosLibro
<1> QED BY <1>3, <1>6, <1>7

\* A published liquidacion is final: it stays published, what it is owed is neither
\* changed nor cancelled, and it is not announced again.
PublicadaFirme ==
    \A l \in Liqs : liq[l].estado = "publicada" =>
        /\ liq'[l].estado = "publicada"
        /\ DeudasLibro(l)' = DeudasLibro(l) /\ AnunciosLibro(l)' = AnunciosLibro(l)

\* No retry, late commit or annulment that was under way reaches what is published:
\* it follows from the book, which the transactions implement.
THEOREM LoPublicadoEsFirme == Spec => [][PublicadaFirme]_vars
<1>1. IInv /\ LInv /\ IInv' /\ [Next]_vars => [PublicadaFirme]_vars
  <2> SUFFICES ASSUME IInv, IInv', LInv, [Next]_vars,
                      NEW l \in Liqs, liq[l].estado = "publicada"
               PROVE  /\ liq'[l].estado = "publicada"
                      /\ DeudasLibro(l)' = DeudasLibro(l)
                      /\ AnunciosLibro(l)' = AnunciosLibro(l)
    BY DEF PublicadaFirme
  <2>1. Fase(liq[l].estado) = "anunciada"
    BY FaseEs
  <2>2. Libro!Next \/ UNCHANGED Libro!vars
    BY NextEsPaso, PasoLibro
  <2>3. CASE Libro!Next
    <3>1. /\ Fase(liq'[l].estado) = "anunciada"
          /\ DeudasLibro(l)' = DeudasLibro(l) /\ AnunciosLibro(l)' = AnunciosLibro(l)
      BY <2>1, <2>3, AnunciadaQueda
    <3>2. liq'[l].estado \in Estados
      BY DEF IInv, TypeOK, Liquidacion
    <3> QED BY <3>1, <3>2, FaseEs DEF Estados
  <2>4. CASE UNCHANGED Libro!vars
    <3>1. /\ [x \in Liqs |-> Fase(liq'[x].estado)] = [x \in Liqs |-> Fase(liq[x].estado)]
          /\ Deudas' = Deudas /\ Anuncios' = Anuncios
      BY <2>4 DEF Libro!vars, Deudas, Anuncios
    <3>2. Fase(liq'[l].estado) = "anunciada"
      <4>1. PICK f, g : /\ f = [x \in Liqs |-> Fase(liq[x].estado)]
                        /\ g = [x \in Liqs |-> Fase(liq'[x].estado)]
        OBVIOUS
      <4>2. f[l] = Fase(liq[l].estado) /\ g[l] = Fase(liq'[l].estado) /\ f = g
        BY <3>1, <4>1
      <4> QED BY <2>1, <4>2
    <3>3. liq'[l].estado \in Estados
      BY DEF IInv, TypeOK, Liquidacion
    <3>4. liq'[l].estado = "publicada"
      BY <3>2, <3>3, FaseEs DEF Estados
    <3>5. DeudasLibro(l)' = DeudasLibro(l) /\ AnunciosLibro(l)' = AnunciosLibro(l)
      BY <3>1 DEF DeudasLibro, AnunciosLibro
    <3> QED BY <3>4, <3>5
  <2> QED BY <2>2, <2>3, <2>4
<1> QED BY <1>1, Invariante, InvarianteLibro, PTL DEF Spec
=============================================================================
