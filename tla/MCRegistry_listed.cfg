CONSTANTS
  Objs <- MCObjs
  Configured <- MCConfigured
  MaxAdds = 3
SPECIFICATION Spec
INVARIANT TypeOK
