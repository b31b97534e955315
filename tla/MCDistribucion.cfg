\* Up to three gastos of two conceptos among three units, with a Precision small
\* enough for shares near half a cent to go either way.  The loop ends.
SPECIFICATION SpecDis
CONSTANTS
    NUFs = 3
    Coefs = {0, 1, 2, 3}
    Conceptos = {"luz", "agua"}
    Importes = {1, 2, 5}
    MaxGastos = 3
    Precision = 30
CHECK_DEADLOCK FALSE
INVARIANTS SumaExacta RepartoProporcional
