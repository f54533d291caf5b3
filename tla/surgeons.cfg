CONSTANTS
  cli = cli
  mcp = mcp
  Process = {cli, mcp}
  Server = {mcp}
  Use <- Calls
  Local = {"ollama", "mlx", "mlx_proxy", "vllm"}
  Provider = {"ollama", "mlx", "mlx_proxy", "vllm", "openai", "deepseek", "deepseek-reasoner",
              "anthropic"}
  Ladder <- Ladders
  Fallback <- Fallbacks
  Retries = 1
  Vote = {"agree", "disagree"}
  MaxCalls = 2
  MaxErrors = 1
  None = None
SPECIFICATION Spec
INVARIANTS
  TypeOK
  OverridesWin
  ResultBacked
  FileHonest
PROPERTY CommandEnds
