SPECIFICATION CmdSpec
CONSTANTS
  Letters <- ShortOptions
  WithValue <- ValueOptions
  LongOptions <- LongOptionTable
  Orderings <- MCOrderings
  CommandLines <- MCCommandLines
INVARIANT XmlFormatAccepted
