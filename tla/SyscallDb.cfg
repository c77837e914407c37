SPECIFICATION Spec
CONSTANTS
    fread = fread
    printf = printf
    read = read
    write = write
    gone = gone
    Star = Star
    NoTx = NoTx
    MaxId = 5
    Function <- MCFunction
    Name <- MCName
    FunctionFiles <- MCFunctionFiles
    Headers <- MCHeaders
PROPERTY
    ImplementsFunctionMap
