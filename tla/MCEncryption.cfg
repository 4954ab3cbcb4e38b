SPECIFICATION LoginSpec
CONSTANTS
  Files <- MCFiles
  SystemCerts <- MCSystemCerts
  Ports <- MCPorts
  SocketDirs <- MCSocketDirs
  Strings <- MCStrings
  Configs <- MCConfigs
  Builders <- MCBuilders
  Servers <- MCServers
INVARIANT EncryptedAsAsked
CHECK_DEADLOCK FALSE
