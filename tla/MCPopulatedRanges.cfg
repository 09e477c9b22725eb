CONSTANT FileSize = 7
SPECIFICATION Spec
INVARIANTS Separated DenotesWritten LookupsExact
PROPERTY AccountingExact
