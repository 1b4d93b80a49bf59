\* Two syncs beside an ingest that may crash anywhere.
SPECIFICATION Spec
CONSTANT Readers = {r1, r2}
INVARIANTS TypeOK ReadsWholeLibrary LockIsReturned
PROPERTIES NobodyWaits ImplementsAccess
