\* One call of a function on data per behaviour, or the steps of the store or
\* of a discovery.
SPECIFICATION Spec
CONSTANTS
  Docs = {"d1", "d2", "d3"}
  IdOf <- MCIdOf
  AffNames = {"n", "m"}
  Types = {"integer", "string"}
  MaxAdds = 2
  Services <- MCServices
  Wanted = "idprov"
INVARIANTS
  ConfigResolved
  NamesReadBack
  ValuesAgree
  SignatureHonest
  StoreReadsBack
  ServiceFound
\* A task ends.
CHECK_DEADLOCK FALSE
