SPECIFICATION Spec
VIEW MCView
CONSTANTS
  MaxLen = 2
  Uses <- MCUses
INVARIANTS
  
  TailsAgree
  NeverAborts
  
  
