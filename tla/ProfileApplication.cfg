SPECIFICATION Spec
CONSTANTS
    index = index
    lib = lib
    open = open
    exec = exec
    read = read
    write = write
    close = close
    a1 = a1
    a2 = a2
    Star = Star
    Absent = Absent
    File = {index, lib}
    Function = {open, exec}
    Name = {read, write, close}
    App = {a1, a2}
    Calls <- MCCalls
    Includes <- MCIncludes
    Classes <- MCClasses
    Mappings <- MCMappings
    Begun <- MCBegun
INVARIANTS
    NeverWider
    CleanRunExact
