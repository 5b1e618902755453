SPECIFICATION FairSpec
CONSTANTS
  Flows = {f1}
  Words = {abi, rest}
  AbiWord = abi
  Configs = {c1, c2}
  Zero = Zero
  SeqSpace <- MCSeqSpace
INVARIANTS NoTornConfig RoundOnOneConfig
PROPERTIES ImplementsRegister EventuallyUpToDate
