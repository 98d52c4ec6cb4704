SPECIFICATION Spec
CONSTANT Docs <- EveryDoc
INVARIANTS IInv StackByNesting
PROPERTIES LineByLine Ends
