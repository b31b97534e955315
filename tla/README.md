# TLA+ specifications of ConsorcioAbierto

ConsorcioAbierto administers *consorcios* (buildings in shared ownership): every
month it settles the common expenses, charges each unit, collects payments and
tells owners and tenants. The server is a Go API (`apps/api`), a worker
(`apps/worker`), PostgreSQL with row level security, an object store and the
Mercado Pago payment provider. This directory models the parts of the server
where money, concurrency and retries meet, checks them with TLC and proves what
matters most with TLAPS.

Contents: [inventory](#1-inventory), [plan](#2-plan),
[modules](#3-the-modules-and-the-code), [runs](#4-runs-bounds-and-what-they-show),
[fairness](#5-fairness), [proofs](#6-proofs),
[where the code and its documents disagree](#7-where-the-code-and-its-documents-disagree),
[limits](#8-what-is-left-out).

To check: `tlc -config MCLiquidaciones.cfg MCLiquidaciones.tla` (and so on, one
`.cfg` per run), `tlapm LiquidacionesProofs.tla` (and so on, one module per set of
theorems). `PROJECT.json` lists runs, theorems, hazards and the lines of code each
definition stands for.

## 1. Inventory

All state is in PostgreSQL, but for the objects of documents and the checkouts at
Mercado Pago. A handler of `apps/api/transport/http` opens one transaction per
request at READ COMMITTED (`txQueries`), sets the tenant, calls a service of
`internal/`, commits, and then writes an audit event in a second transaction. The
services call each other inside that transaction; nothing but the outbox crosses
transactions, and nothing but row locks, unique keys and versions orders concurrent
requests.

| component | state | operations | what makes it correct | hard behaviour | module |
|---|---|---|---|---|---|
| **Liquidaciones** `internal/expensas/{liquidacion,transiciones}.go`, `internal/cuenta_corriente` | `liquidaciones`, `liquidacion_unidades`, `charges`, `account_entries`, `idempotency_keys` | create, PATCH, calcular, confirmar, publicar, anular | the debt is one calculation, once; ledger and charges agree; one event per publication | reads before the version check, an `If-Match` that may be ahead, no unique key on charges | `Liquidaciones`, `LibroDeDeuda` |
| **Distribution** `internal/expensas/calculo.go` | none (pure) | `agruparConceptos`, `Distribuir` | shares add up to the total, to the cent, and are proportional | float rounding, clamp and residue | `Distribucion` |
| **Cobranzas** `internal/cobranzas/{acreditacion,ledger,cobranzas}.go` | `payments`, `payment_allocations` | create, acreditar, asignaciones, revertir, cuenta corriente | allocations within payment and charge, estado and allocations agree, oldest first | no lock on the payment; only a primary key orders two requests | `Cobranzas` |
| **Mercado Pago** `internal/cobranzas/mercadopago*.go` | `psp_intents`, the provider | create with checkout, webhook | what is paid is credited, once | provider called inside the transaction, retries, late and repeated webhooks | `MercadoPago` |
| **Outbox and workers** `internal/outbox`, `apps/worker` | `outbox_events` | claim, process, fail | one owner per event; every event ends | crash between claim and processing, two workers | `Outbox`, `Buzon` |
| **Comunicados** `internal/comunicaciones` | `comunicados`, keys | create, publish | one notice per user | concurrent publications with two keys | `Outbox`, `Buzon` |
| **Notificaciones** `internal/notificaciones` | `notificaciones` | fan-out, mark read | as above | unique index shared by two transactions | `Outbox` |
| **Identity** `internal/identity/{auth,mfa,attempts}.go` | users, sessions, refresh tokens, attempts | login, MFA, refresh, logout, tenant selection | a used token is dead, and its family too when it comes again; attempts are bounded | checks outside the transaction, two statements that count and record | `Sesiones` |
| **Permissions** `internal/identity/permissions*.go`, `middleware.go` | roles and scopes, a cache with a TTL in each process | authorize a request | no decision on stale roles beyond the window | slow requests that write the cache | `Permisos` |
| **Imports** `internal/consorcios/imports.go` | jobs, unidades and vinculos | create, confirm | a job is applied once, at once, its summary is true | confirmed twice, two jobs on one unidad | `Importaciones`, `Padron` |
| **Reclamos** `internal/reclamos`, `internal/portal/reclamos.go` | reclamos, history, messages | create, message, transition | the history explains the estado | two transitions at once | `Reclamos`, `Tramites` |
| **Documentos** `internal/documentos` | metadata and objects, in two stores | upload intent, scan, download | infected content is not given out | a verdict that is rolled back, an object uploaded again | `Documentos`, `Tramites` |
| **Conceptos, gastos** | two tables | CRUD | input of the distribution | change while it is computed | as an input |
| **Personas** | personas and their user | CRUD, link, unlink | decides who is notified | changes during a fan-out | as an input |
| Consorcios, unidades, proveedores | one table each | CRUD | single statements | an import beside a creation | in `Importaciones` |
| Auditoria, morosidad, portal views, row level security | – | append, reports, filters | – | – | section 8 |
| server, config, logger, observability, web client | none that the properties see | – | – | – | section 8 |

Interactions: *Distribuir* computes the snapshot that *calcular* stores; *confirmar*
posts the charges that Cobranzas allocates payments to; *anular* clears their
balance; *publicar liquidacion* and *publicar comunicado* insert outbox events in
their own transaction; the workers turn an event into notices; the Mercado Pago
webhook credits a payment through the same code as the treasurer
(`AcreditarCobranza`); a message of a claim attaches documents; every request but
those of login passes through the permissions.

## 2. Plan

In order of what the system stands to lose:

| step | modules | model | proofs |
|---|---|---|---|
| 1 | `Liquidaciones`, abstract `LibroDeDeuda` | done | done, refinement included |
| 2 | `Cobranzas` | done | done |
| 3 | `Outbox`, abstract `Buzon` | done | done, refinement included, but for liveness |
| 4 | `MercadoPago` | done | done, but for liveness |
| 5 | `Distribucion`, with `Sumas` | done | done |
| 6 | `Sesiones`, `Permisos` | done | done |
| 7 | `Reclamos`, `Documentos`, composed in `Tramites` | done | done |
| 8 | `Importaciones`, abstract `Padron` | done | done, refinement included |

What is left: SelectTenant in Sesiones, once a session carries its membership
through a refresh.

How the modules fit together: `Liquidaciones` INSTANCEs `LibroDeDeuda`, `Outbox`
`Buzon`, and `Importaciones` `Padron`, each the abstract specification that it
implements; `Tramites` EXTENDS `Documentos` and `Reclamos`; `Cobranzas` and
`Distribucion` EXTEND `Sumas`, the one sum over a function; each proof module EXTENDS
its component, and `MontosProofs` the two that add amounts up, Cobranzas and
Distribucion (whose specification is `SpecDis`, to be told from the other's `Spec`);
each `MC` module EXTENDS the component it instantiates. Components that share a table
but not a transaction are modelled apart, each with the other's effect as an action
of its environment: `Emitir` and `Anular` in Cobranzas, `PublicarLiquidacion` in
Outbox, `Tesoreria` in MercadoPago.

## 3. The modules and the code

### Transactions

The same conventions hold in every module. A **session** is one open transaction.
PostgreSQL runs them at READ COMMITTED, so:

- each read that a handler relies on later is a step of its own and sees what is
  committed at that moment; the values it read stay in the session record;
- what a transaction writes is private until it commits, so it appears in one step,
  merged with the last UPDATE of the transaction. That UPDATE takes a row lock; a
  competing one waits and then evaluates its WHERE clause again on the committed
  row, which is the guard of the step (`Vigente`);
- an INSERT of a key that another open transaction has inserted waits
  (`stampIdempotency`, the primary key of `payment_allocations`, the unique index of
  `notificaciones`): a guard over the other sessions;
- a row lock that a transaction takes earlier than its last statement is merged with
  that statement too, so waits for row locks are not steps and the models say nothing
  about circles of them;
- `Abortar` stands for every way a transaction may end without committing: a client
  that goes away, a failed statement, a crash, a deadlock that PostgreSQL resolves;
- **history variables** record what happened for the properties and are read by no
  guard.

### Liquidaciones

| model | code |
|---|---|
| `liq` | `liquidaciones` with its snapshot `liquidacion_unidades` (`reparto`) |
| `gastos` | what `Distribuir` would return for the month now; `Ninguno` when it has no gastos or no active units |
| `cargos`, `asientos` | `charges`, `account_entries`; `lote` tells apart two postings of one liquidacion |
| `eventos`, `idem`, `ses` | outbox events, keys by scope, open transactions |
| `Crear`, `PeriodoLibre` | `CreateLiquidacion`, index `liquidaciones_unica_activa_idx` |
| `Patch` | `UpdateVencimientos`; the row count is ignored, as in the code |
| `CambiarGastos` | gastos and units change at any time |
| `Recibir` | a request arrives and does its first read, `GetLiquidacion` with the check of estado, for calcular also gastos and units; one that this read refuses leaves no trace |
| `Versiones` | `If-Match`: any positive number (`parseIfMatch`), a version that does not exist yet included; the handlers compare it in the WHERE of the transition only |
| `Sellar` | `stampIdempotency` |
| `Preparar` | second read: the snapshot (confirmar) or the open charges (anular) |
| `EscribirCalculo/Cargos/Evento/Anulacion` | the writes, `TransitionLiquidacion`/`AnularLiquidacion`, `saveIdempotency`, commit |
| `Descartar` | `ErrLiquidacionVersionMismatch` and rollback |
| `calculados`, `adelantadas` | history: the snapshots that committed for each liquidacion; the liquidaciones confirmed with an `If-Match` ahead of the version their request had read |

The distribution is an input (`Repartos`): which totals it gives does not matter to
this module, only that a later one may be different. Estado `cerrada` has no
operation that reaches it and is left out.

`LibroDeDeuda` is what all this is for, without versions, keys or transactions: a
liquidacion is *abierta*, *exigible*, *anunciada* or *anulada*, and five atomic
actions lead from one to the next. While it is open, proposals are made for it, and
becoming exigible posts exactly one of them (`Cobra`), not necessarily the last: that
much the code keeps for every `If-Match`. The refinement mapping (`Libro`, at the end
of Liquidaciones) reads the phase off the estado, the proposals off `calculados`, the
debts off the charges with a balance and the announcements off the events.

Transactions of this module wait for keys and for row locks, but not in a circle of
the two: a transaction that waits for a key (`stampIdempotency`) has written nothing
yet, so nobody waits for it.

### Distribucion

One iteration of a loop of `Distribuir` is a step, at concepto `cpto` and unit `pos`:
`Preparar` sorts the units by code (`PorCodigo`) and groups the gastos
(`AgruparConceptos`), `Repartir` gives one unit its share of one concepto, `Residuo`
gives what is left to the first unit with a coefficient (`Primera`), in its last item
(`ConResto`). The
code adds the coefficients up, divides and multiplies in float64 and rounds;
`Redondeos` is the set of cents that this may give: those within half a cent of a
number that is off by at most `1/Precision` of the exact share (each of the some
`NUFs + 3` operations errs by at most 2^-53). A share near half a cent may go to
either side, and for large amounts "near" grows with the amount. Coefficients are
integers here, since only their ratios matter.

### Cobranzas

One unit, its charges numbered from oldest to newest, payments and their
allocations (`asig[p][c]`, 0 when there is no row). `Fifo` is the loop of
`buildFIFOAllocations`, `Valido` the checks of `buildExplicitAllocations`.
A request goes `leer` → (`borrar` → `borrando`) → `asignar` → `confirmar`. A DELETE
is two steps, because it takes its snapshot first and waits after: rows that
another transaction inserted meanwhile are not deleted by it, and rows that
another deleted are gone when it resumes (`Confirmar` removes them from `borra`).
`AjustarAsignaciones` and `RevertirCobranza` delete; `AcreditarCobranza` and the
webhook only insert. `Emitir` and `Anular` are the effect of module Liquidaciones on
the balance of charges; nothing else writes `charges.saldo_cents`, crediting included.
The webhook reads the payment twice; the model has the second read only, which
is the one that decides. A conflict of keys (23505) ends the transaction.

Two history variables say when a commit rests on stale reads: a commit makes every
other open transaction that has read the payment no longer `fresca` (`Alcanza`), and
one that commits without being `fresca` puts the payment in `desfasados`, until a
reallocation or a reversal that is `fresca` replaces its allocations. No lock of the
code prevents such commits; what they do is in section 7, and what the code keeps
beside them, and restores after them, is what `SumaConLecturaFresca` and
`RevertidoSinAsignaciones` state.

### MercadoPago

| model | code |
|---|---|
| `pago`, `intento`, `idem` | `payments`, `psp_intents`, keys of scope `cobranzas.create` |
| `pref` | the preferences at Mercado Pago (external): opened, shown to the user by an answer, paid, and whether its approval was answered 200 |
| `Sellar`, `Insertar`, `CreateCheckout`, `Anotar`, `ConfirmarAlta` | `CreateCobranzaMercadoPago` in the order of its statements; a key that is stored skips `Insertar` only |
| `Buscar`, `Leer`, `Acreditar`, `ConfirmarWebhook` | `ProcessMercadoPagoWebhook` |
| `Tesoreria` | crediting and reverting by hand (module Cobranzas) |

`CreateCheckout` happens at the provider and no rollback undoes it. A webhook may come
in any order and any number of times; an approval comes again until it is answered
200. `Retienen` are the transactions that hold the row of the payment.

### Outbox

`Sellar`/`Leer`/`Escribir` are `Publish` of a comunicado (a request that waits for a key
is one that arrives later); `PublicarLiquidacion` is the
event that Liquidaciones queues. A worker is its claimed batch (`lote`), the event in
process (`actual`), who is still to be notified (`dest`) and what its open
transaction has inserted (`nuevas`). `Reclamar` is `claim_pending_outbox_events` (a
transaction of its own), `Empezar` the start of `process` with
`ListDestinatariosNotificacion`, `Avisar` one `InsertNotificacion`, `Marcar`
`MarkOutboxEventProcessed` and commit. `FallarPDF` is the one error that `markFailed`
can record, since it precedes every statement: the generator is an interface,
and its present implementation never fails. `FallarBase` is any other error: the
transaction is aborted, `markFailed` runs in it and fails too. `Caer` is a crash or a
shutdown. `next_attempt_at` only delays a claim and is covered by claims that come
late. `Duenos` are the workers whose database role owns the tables, as in
`docs/environments.md:25`; with the role of `.env.example:18` the row policies apply
(`AvisarSinPermiso`, section 7).

`Buzon` is what publications promise: publishing and queueing a dispatch are one step;
a dispatch takes the list of who is linked at one moment and has no notice
(`Tomar`), and then either all of the list have it at once (`Entregar`) or nothing
happened (`Soltar`). In the mapping (`Bz`, at the end of Outbox) a dispatch is an
event, one that was delivered an event that is processed, one that has begun an event
that a worker has in process, and its list whoever of `dest` and `nuevas` has no
committed notice (`Faltan`): claims, attempts, single inserts, crashes and errors
are steps of Outbox that Buzon does not see.

### Sesiones

A request is a process that walks through the statements of its handler: `Login`
(`Contar`, `LeerLogin`, `OpenSession`), `VerifyMfa` (`LeerMfa`, `Contar`, `Verificar`,
`OpenSession`), `ConfirmMfa` (`LeerConfirm`, `EnableMfa`), `Refresh` (`Buscar`, `Rotar`,
`RefreshEmite`, or `RevokeFamily`, `RevokeTokensByFamily` on reuse) and `Logout`.
Counting failures, looking a token up and reading a secret happen outside the
transaction that acts on them, so each is a step. `Rotar` holds the row of the token
until its request ends (`Retenido`), and `RevokeTokensByFamily` takes its snapshot
before it waits: a token that a rotation inserts meanwhile is not in it. `cruzadas`
records which families two requests used at the same time, and the promises about
tokens exclude exactly those (section 7). Passwords, codes and signatures are
whether they match; failures leave the window by themselves (`OlvidarFallo`).

### Permisos

One membership, one process of the API. A version number stands for the contents of
roles and scopes, and `fin` records when each was replaced. A request reads the
status (`LeerEstado`, never cached), the cache (`Get`), and on a miss the roles and
the scopes in two statements, which may see two versions, then writes the entry
(`Set`) with its time to live counted from that moment. `Tic` does not pass the
timeout of the server for an open request. `decision` is what the last step
authorized.

### Importaciones

A confirmation is a transaction that reads the job without a lock, stamps its key,
takes the row of the job (`SetImportJobEstado`, with no condition on the estado),
and then looks each valid row up and writes it, two steps per row. `nuevas` holds what
it has written; a unidad it wrote is locked until it ends (`Retienen`).
`CrearUnidadDesdeFila` fails the whole job when another transaction has created the
code since it looked. The parsing of CSV is `Valida`. A link closed on the day it began
breaks the CHECK `valid_to > valid_from` (migration 00009:57) and with it the whole
import: one of the errors that `Abortar` stands for.

`Padron` is what an import promises, without rows, transactions or locks: a job asks
for some codes, each with a person or none (`Lista`), and its application under a key
(`Aplicar`) is one step on the unidades as they are at that moment; the summary
counts what that step created, updated and left out. In the mapping `Padron`, at the
end of Importaciones, `FinishImportJob` is that step. What Padron leaves open is what the code
leaves open: a unidad that does not exist when a job of mode *actualizar* looks for
it, and is created before the commit, is left out (`Admitidos`).

### Documentos, Reclamos, Tramites

In Documentos a download scans the object, writes the verdict, reads the row back and
signs an address, all in a transaction that ends in a rollback, so the committed rows
never leave `pendiente` and the model has no estado for them. The client uploads by
itself while its PUT address lives. In Reclamos a transition reads the claim
(`GetReclamo`, with the table of transitions) and later inserts its history and
updates the claim (`Transicionar`), whatever the claim is by then. Tramites runs both
together: a message attaches a document that must exist.

## 4. Runs, bounds and what they show

| run | instance | shows |
|---|---|---|
| `liquidaciones` | 2 liquidaciones of one month, 2 units, 2 distributions, one due date, 2 transactions, 2 keys for both, any `If-Match` from 1 to 4, calcular up to version 3; 740 thousand states | `DeudaDeUnCalculo`, `LibroCuadra`, `EventoSiiPublicada`, `ClaveDeUnEfecto`, `PeriodoCobradoUnaVez` over annul-and-settle-again, and the refinement `RefinaLibro` |
| `liquidaciones_if_match` | one liquidacion; violated | section 7 |
| `cobranzas` | one payment of 2, charges of 1, 2, 2 with the last one not yet due, 7 requests, 2 transactions | `SumaConLecturaFresca`, `PendienteSinAsignaciones`, `RevertidoSinAsignaciones`, `FifoPagaLoMasAntiguo` over every interleaving of two requests |
| `cobranzas_exceso` | two payments, one transaction at a time; violated | section 7 |
| `outbox` | 3 workers (one without permission), 2 users (one whose link comes and goes), a comunicado published twice and a liquidacion, one crash or error; no symmetry | `UnSoloDueno`, `AvisoUnico`, `FanOutAtomico`, the refinement `RefinaBuzon`, and the liveness of events, `EventosAtendidos` |
| `sesiones` | 2 requests, 2 families, 3 tokens, 1 secret, a limit of 1 failure; 3.3 million states | `FallosAcotados`, `MfaConSecreto`, `UnVivoPorFamilia`, `FamiliaMuerta` |
| `permisos` | 2 requests, a TTL of 2 ticks and requests of up to 2, 2 changes, a clock to 6 | `DecisionFresca` |
| `mercadopago` | 2 keys, 2 contents with one reference, 2 payments, 2 checkouts, 2 transactions, one failure | `PagoConSuIntento`, `PerdidaSoloReemplazada`, and the liveness `PagadoSeAcredita` |
| `importaciones` | 2 jobs of 3 rows on 2 unidades in opposite orders, with a repeated and an invalid row, 2 keys, 2 transactions | `AplicadoUnaVez`, `ResumenFiel`, and the refinement `RefinaPadron` |
| `tramites` | one document uploaded up to twice, 2 downloads; one claim, 2 transitions at a time from a history shorter than 2 | `DescargaEscaneada`, `HistoriaFiel` |
| `distribucion` | 3 units in any order, coefficients 0 to 3, up to 3 gastos of 2 conceptos of 1, 2 or 5 cents, `Precision` 30 | `SumaExacta`, `RepartoProporcional` |
| `distribucion_mayor_resto` | one gasto of one cent, coefficients 2 and 3; violated | section 7 |

The type invariant of each module but Distribucion is checked in its run (that of
Distribucion is part of the proof, `DTipo`). Only the runs of Distribucion do not look
for deadlocks: its loop ends.

Why these bounds are enough to be interesting:

- *Two transactions.* Every race of the code is between one request and a competing
  one: a third only repeats the part of the second. Version 3 lets a recalculation
  happen between the two reads of a confirmation, and a confirmation and its
  annulment after it; `If-Match` goes to 4, the version that comes after it.
- *Two distributions* differ in which units they charge, one leaving a unit without
  anything to pay. *One due date*: a second one makes the run too long, so that a PATCH
  beside a confirmation changes nothing of what is charged is left to the theorem
  `DeudaFiel`, where `Fechas` is any set.
- *Amounts.* The charges of Cobranzas are smaller than, equal to, and together
  larger than the payment, so FIFO stops in the middle of a charge, at the end
  of one, and runs out of charges; the requests contain a plan that fits, one that
  exceeds the payment and an empty one. Distribucion has coefficients and amounts
  whose shares fall on half a cent, are cut by the clamp and leave a residue; with
  `Precision` 30 shares beside half a cent (one of 45/8, say) go either way too, as
  those of large amounts do in float64.
- *Workers.* Two of them meet at the claim and at the unique index; the third shows
  what the missing permission changes. `Lote = 2` makes a batch of more than one
  event, so a crash in the middle of one leaves an event behind.
- *Tokens.* Two requests reach every order of rotation, reuse and logout on a family;
  three tokens let one be rotated twice, or rotated while another family lives. One
  failure allowed is enough for two requests to pass the limit together.
- *Clock.* Six ticks hold a slow request that writes an old entry, the whole life of
  that entry and the decision on it after a second change.
- *Checkouts.* Two of them are a retry that replaces the first, with both paid.

Where symmetry is declared, it is over identifiers that no definition tells apart
(sessions, requests, keys, tokens, families, liquidaciones, workers of one role), and
never in a run with a liveness property.

## 5. Fairness

- *Outbox.* `Run` has a ticker that calls `drain` every second for as long as the
  process lives, and `drain` processes its whole batch and claims again, so each
  worker that can act does: weak fairness of `Trabajar(w)`. Crashes and database errors
  (`Caer`, `FallarBase`) have no fairness, nor has any client request. Under it,
  `EventosAtendidos` says that every queued event is processed, or fails its last
  attempt, or is abandoned in `procesando` after a fault (the disjunct names the case).
- *MercadoPago.* A request that the server has received is worked on (weak fairness of
  `Avanzar(w)`). Mercado Pago repeats an approval until it is answered, and the server
  always accepts one more request: strong fairness of the delivery, because the two
  sessions of the instance may be taken at any given moment. Nothing is assumed of
  users, treasurers or failures. Under it, `PagadoSeAcredita` says that what was paid
  on the checkout that the payment shows is credited in the end.

The other modules promise nothing that must eventually happen: a request that never
comes back is a client that went away.

## 6. Proofs

Every theorem holds for any number of the things its module speaks of (liquidaciones,
units, transactions, keys, requests, tokens, workers, users, documents, claims, files
and their rows, payments, charges, gastos) and rests on the named ASSUMEs of the
module it is about and on no others: numbers are naturals, `Ninguno` is no other value
(nor is a job of Importaciones a key), the requests of Sesiones are a finite set that
is not empty, there is a unit and a gasto to distribute. The runs evaluate those assumptions on their instances.

| module | theorems | inductive invariant |
|---|---|---|
| `LiquidacionesProofs` | `Tipos` (`TypeOK`), `DeudaFiel` (`DeudaDeUnCalculo`), `SinDobleCargo` (`CargosUnaVez`) | `IInv` |
| | `LibroSiempreCuadra` (`LibroCuadra`), `UnEventoPorPublicacion` (`EventoSiiPublicada`), `ClavesFieles` (`ClaveDeUnEfecto`), `MesCobradoUnaVez` (`PeriodoCobradoUnaVez`), `Refinamiento` (`RefinaLibro`), `LoPublicadoEsFirme` (`[][PublicadaFirme]_vars`) | `LInv`, on top of `IInv` |
| `MontosProofs` | `Tipos`, `SinAsignarAntesDeAcreditar` (`PendienteSinAsignaciones`), `SiempreLoMasAntiguo` (`FifoPagaLoMasAntiguo`) | `CInv` |
| | `SinExceso` (`SumaConLecturaFresca`), `RevertidoPagaNada` (`RevertidoSinAsignaciones`) | `FInv`, on top of `CInv` |
| | of Distribucion: `NadaSePierde` (`SumaExacta`), `CadaUnoSuParte` (`RepartoProporcional`) | `DInv` |
| `ImportacionesProofs` | `Tipos`, `UnaAplicacion` (`AplicadoUnaVez`), `ResumenVerdadero` (`ResumenFiel`), `UnVinculo` (`UnVinculoImportado`) | `IInv` |
| | `RefinamientoPadron` (`RefinaPadron`), `VinculosFirmes` (`[][VinculosPorArchivo]_vars`) | `JInv` (theorem `LoDecididoVale`), on top of `IInv` |
| `OutboxProofs` | `Tipos`, `DuenoUnico` (`UnSoloDueno`), `UnAvisoPorPublicacion` (`AvisoUnico`), `TodoONada` (`FanOutAtomico`), `UnEventoPorClave` (`ClaveEncolaUnaVez`), `RefinamientoBuzon` (`RefinaBuzon`), `LoAvisadoQueda` (`[][AvisosFirmes]_vars`) | `OInv` |
| `MercadoPagoProofs` | `Tipos`, `CheckoutComun` (`PagoConSuIntento`), `PerdidasReemplazadas` (`PerdidaSoloReemplazada`) | `MInv` |
| `SesionesProofs` | `Tipos`, `LimiteDeFallos` (`FallosAcotados`), `SiempreConSecreto` (`MfaConSecreto`), `UsoUnico` (`UnVivoPorFamilia`), `MuertaParaSiempre` (`FamiliaMuerta`) | `SInv` |
| `PermisosProofs` | `Tipos`, `SiempreFresca` (`DecisionFresca`) | `PInv` |
| `TramitesProofs` | `Tipos`, `SiempreEscaneada` (`DescargaEscaneada`), `SiempreFiel` (`HistoriaFiel`) | `DInv` and `RInv` |

None of the deep properties is inductive: each follows only if one knows what an
open transaction may still rely on, and that is what the invariants add.

- **`IInv`** (Liquidaciones). `FilasOK`: a liquidacion in borrador or calculada has no charges, and one
  that is calculada, confirmada or publicada has a snapshot. `LecturaOK`: the due date
  read from a liquidacion past borrador is final, since PATCH edits borradores only.
  `PreparadoOK`: the snapshot that a confirmation read was committed once (`calculados`),
  and *as long as the version has not moved*, it (or the list of charges to reverse)
  is the present one. Every step that changes a snapshot or a charge takes a version,
  so a transaction whose `Vigente` guard holds writes from fresh reads, provided that
  its `If-Match` was not ahead of the version it had read: a version that does not
  exist yet may come to match after the snapshot was replaced. Then (`adelantadas`) what
  is posted is still whole and of one calculation, but not of the last.
- **`LInv`.** The unique index holds (`ActivaUnica`), and a stored key means that its
  liquidacion is past that transition, which nothing undoes
  (`ClavesTrasTransicion`). The refinement then has one lemma per kind of step: each
  commit is one action of LibroDeDeuda and everything else a stutter.
  `LoPublicadoEsFirme` follows from the book: what a published liquidacion charges and
  announces never changes again.
- **`CInv`** (Cobranzas). A payment that has left `pendiente_revision` never comes back,
  so what a transaction saw of its estado still holds when it commits.
- **`FInv`** (Cobranzas). The plan of a transaction never adds up to more than the payment;
  and as long as it is `fresca`, what it saw of the estado is the estado, and what a
  reallocation or reversal has deleted is every allocation of the payment. So a commit
  that is `fresca` either adds to nothing or replaces everything. It holds for any
  number of transactions on one payment and assumes nothing of the clients.
- **`DInv`** (Distribucion). The conceptos are what folding the gastos one by one makes
  (`EsAgrupado`), and units sorted by code are 1, 2, and so on. In the loop, the
  shares given out and what is left add up to the amounts (`Cuadra`); after k units
  the shares are at most k half cents, and the error 1/`Precision` of the quotients
  computed so far, away from the exact ones, and above them only while something was
  always left, for the clamp leaves nothing (`Parcial`); a concepto that was given out
  stays within the bounds (`Justos`). It holds for every `Precision` and every choice
  in `Redondeos`.
- **`IInv`** (Importaciones). What a transaction wrote comes from the rows it has passed
  and is counted once; two transactions hold no unidad and no key in common, and two
  of one job are in `cruzados`; a key is not stored while its request works; the
  summary of a processed job is the count of its rows.
- **`JInv`** (Importaciones). A transaction looks at one unidad after the other, and others
  commit meanwhile. `PasadasOK` says that each row it has passed was created, updated
  or rejected as it would be *now*: a unidad it has written is locked, so nobody
  else's commit touches it (`SigueValiendo`), one that it rejected because it existed
  is never deleted, and the mode of a job does not change. Since no row that counts
  is skipped (`ProximaSalta`) and no two have one code (`CodigosDistintos`), what it
  has written at its commit is what Padron applies in one step (`LoEscritoEs`,
  `CommitAplica`); every other step of a transaction is a stutter. `VinculosFirmes`
  is read off the refinement: the open vinculos of a unidad change only in the step
  that applies a file with a person for it, and to that person.
- **`OInv`.** A key is free until the request that stamped it commits. An event held by
  a worker is held by it alone, what its open transaction inserted nobody else inserts,
  and whoever was linked all along is still to be notified, or was. The refinement
  needs no more: a step of a worker that neither starts, ends nor gives up an event
  leaves every list as it is, and a commit takes those it notified off the lists of the
  other events of that publication. `LoAvisadoQueda` is read off it: a notice is
  never taken back, and appears only with the event that ends in that step.
- **`MInv`.** A checkout belongs to the session that opened it until that session
  commits, and no webhook is about it before.
- **`SInv`** (Sesiones). Failures, and the requests that have counted and not yet recorded, stay
  together under the bound. A family outside `cruzadas` has one request at a time, so
  what it saw of the family is still so when it writes.
- **`PInv`.** The moment until which a version was current never decreases; what a
  request reads was current when it began or later; an entry expires at most
  `Demora + TTL` after its contents were current.
- **`DInv`, `RInv`** (Tramites). A verdict is that of the object unless something was uploaded
  since; what a transition read is what the claim was after so many transitions.

Sums are folds over a set in an order that is not fixed. `MontosProofs` names the one
function over subsets that such a fold is (`Sobre`) and shows that elements may be
taken out of it in any order; what needs induction over a set or over a number there is
proved by a minimal counterexample, since `<` is well founded.

Only model-checked: `EventosAtendidos` and `PagadoSeAcredita`, which are liveness under
fairness. All the other properties of the passing runs are theorems, the three
refinements included. `UnVinculoImportado` and `ClaveEncolaUnaVez`, which the
refinements imply, and `CargosUnaVez` are theorems that no run repeats.

## 7. Where the code and its documents disagree

Three runs refute a document, as quoted in `PROJECT.json`:

- **Two payments for one charge** (`cobranzas_exceso`): crediting does not lower
  `charges.saldo_cents`, so the next payment pays the same charge again (ADR-0007).
- **A confirmation of the wrong snapshot** (`liquidaciones_if_match`): `If-Match` should
  detect the concurrent edition of a draft (ADR-0004:15), but a confirmation that sends
  the *next* version, beside a recalculation that makes it, posts the charges of the
  snapshot before it. `ConfirmarLiquidacion` compares the number only in the WHERE of
  the transition, not with the version it read.
- **The residue** (`distribucion_mayor_resto`): ADR-0006:14 and the comment of
  `calculo.go:56` promise the largest remainder; the code rounds and gives what is left
  to the first unit with a coefficient.

The others were seen while modelling; each says what the models do with it.

*Cobranzas*
- Two concurrent credits whose lists name different charges both commit, and more is
  allocated than was paid ("la suma asignada no supera el importe acreditado",
  ADR-0007:16): each checks its own list, with no lock on the payment
  (`acreditacion.go:59`). A reversal whose DELETE misses a concurrent credit leaves its
  allocations; reallocating, or reverting again, sets them right. Until then the
  payment is in `desfasados`.
- Two deliveries of one approval read `pendiente_revision` (`mercadopago_webhook.go:59`)
  before either credits the payment. When the charge that the first one pays is annulled
  and another is issued before the second allocates, no key clashes and the payment is
  allocated twice, though a repeated webhook "no debe duplicar asientos ni asignaciones"
  (`docs/superpowers/specs/2026-09-28-mercado-pago-integracion-real.md:69`). In
  `desfasados` too.
- The idempotency key of a credit is ignored (`http/cobranzas.go:182`, ADR-0004:14), so a
  retry after a reversal credits again.
- The balance of `GetCuentaCorriente` is not the one of `account_entries`
  (`ledger.go:103`, ADR-0004:12). Not modelled: a report.

*Mercado Pago*
- "Estados desconocidos se registran sin romper el webhook"
  (`mercadopago_webhook.go:67`), but the CHECK of migration 00023:14 does not admit them
  and the webhook fails: `ConfirmarWebhook`.
- A retry opens a second checkout that replaces the first (`mercadopago.go:190`), and an
  approval of the first is lost. `PerdidaSoloReemplazada` says it is never more than that.
- A rollback after `CreateCheckout` leaves a preference that no row knows. Nobody was
  given its URL, so nobody pays it.

*Liquidaciones*
- A retry of a confirmation or publication that succeeded is refused, because the
  estado is checked before the key (`transiciones.go:308`, `:372`, ADR-0004).
- PATCH answers success when it changed nothing (`liquidacion.go:199`,
  `api/openapi.yaml:43`).
- The audit record is written after the commit and its error is ignored
  (`http/auth.go:506`).

*Distribution*
- ADR-0006:13 speaks of integer arithmetic; the code uses float64, and its clamp may
  leave later units some cents short: `RepartoProporcional` states the bound that holds.

*Outbox*
- A failed statement aborts the transaction in which `markFailed` then runs, and a crash
  forgets the batch: the event stays `procesando`, which no claim takes and no
  dead-letter query shows (ADR-0010:22, `observability.md:45`). `EventosAtendidos` names it.
- The role `consorcio_app` cannot insert a notice: RETURNING makes the SELECT policy
  apply, and the worker sets no user (migration 00029:38): `AvisarSinPermiso`.
- Two concurrent `Publish` with different keys queue two events, which the unique
  index of notices absorbs (`AvisoUnico`).

*Identity*
- Reuse of a token should revoke "toda la familia (token + sesión)" (ADR-0009:13). The
  code revokes the tokens and not the session, and the token of a rotation that runs
  at the same time survives, because `RevokeRefreshToken` has no condition on
  `revoked_at`. The properties exclude such families (`cruzadas`).
- A client whose refresh answer was lost and who retries loses its family.
- SetupMfa overwrites a secret that is enabled.
- Refresh always returns the first membership, since SelectTenant does not store its
  choice in the session, and fails when the first one is inactive.

*Permissions*
- The time to live is counted from the write, and a slow request may overwrite a newer
  entry (`permissions_cache.go:52`). The window is `Demora + TTL`, not `TTL`.

*Imports*
- Two confirmations of one job with different keys at the same time both process it, and
  the second overwrites the summary (`imports.go:326`). Such jobs are in `cruzados`.

*Reclamos and documentos*
- Two concurrent transitions from one estado both commit (`reclamos.go:225`), and the
  history is listed by the start of their transactions, not by their commit.
- The verdict of a scan is never stored (`service.go:155` says it is), because the
  handler always rolls back; the object may be uploaded again after the scan, with the
  same address; and in staging and production the scanner is the one that reads nothing.

## 8. What is left out

- Row level security: every table carries a tenant and policies separate them; the
  modules model one tenant, and a policy only where it changes what a component does
  (Outbox).
- Auditoria: rows written best effort after the commit they record, which nothing reads
  back. Morosidad, portal views and the ledger reports: read-only.
- SelectTenant and Me: one issues a token for a membership and the other reads.
- Create, update and list of consorcios, unidades, proveedores, personas and conceptos:
  single statements on one row.
- HTTP server, configuration, logging, observability, the web client: wiring and I/O.
- Amounts are small naturals: int64 cents do not overflow at realistic sums.
- Request validation, JSON, PDF contents, hashing and signing.
