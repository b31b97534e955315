\* Violated: see the finding in PROJECT.json.  The loop ends.
SPECIFICATION SpecDis
CONSTANTS
    NUFs = 3
    Coefs = {2, 3}
    Conceptos = {"luz"}
    Importes = {1}
    MaxGastos = 1
    Precision = 1000000
CHECK_DEADLOCK FALSE
INVARIANT MayorResto
