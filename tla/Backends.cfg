SPECIFICATION LiveSpec
CONSTANTS
  Requests = {1, 2}
  Ops = {"transcribe", "respond", "repair", "classify", "synthesize"}
  Providers = {"local", "openai", "mistral"}
  Voices = {"v1", "v2"}
  DefaultVoice = "v1"
  MaxRegs = 2
INVARIANTS OneAnswer HonestVerdict StoppedClean
PROPERTY AnsweredEventually
