SPECIFICATION Spec
CONSTANTS
  Configs <- MCConfigs
  Secrets <- MCSecrets
  APIKeyEnv = ""
  MaxReports = 2
PROPERTY LevelFilters
