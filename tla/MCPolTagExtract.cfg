\* Every coinbase of up to three outputs drawn from nine representative
\* scripts, with and without a coinbase transaction.
CONSTANTS
    a = a
    b = b
    TagBytes <- MCTagBytes
    Outputs <- MCOutputs
    MaxOutputs = 3

SPECIFICATION Spec
INVARIANT ExtractsFirstQualifying
